---- MODULE Spec2Model ----
(***************************************************************************)
(* Conversation stores, the advisory file lock and the response-to-file    *)
(* extractor of the Decide server (server.js and its sibling sources).     *)
(*                                                                         *)
(* A file on disk is a record [exists, text]; text is a sequence of JSON   *)
(* tokens, so that a truncated write is a strict prefix of a document and  *)
(* parsing is a computation that can fail.  A message object              *)
(* {role, content, timestamp} is one "item" token: its role and a number   *)
(* standing for its content.  Timestamps (lastUpdated, created) are left   *)
(* out of the documents: no operation modelled here reads them.            *)
(***************************************************************************)
EXTENDS Integers, Sequences, FiniteSets, TLC

VARIABLES
    \* ---- server.js: the conversation store (projectConversations) ----
    version,               \* which server.js listing runs: "v1" (cap 20) or "v2" (cap 40)
    booted,                \* loadConversations() at module load has run
    projectConversations,  \* Map: conversation key -> array of messages
    convFile,              \* conversations.json
    tmpFile,               \* conversations.json.tmp
    memFile,               \* memory_<repo>.json, one per conversation key
    turns,                 \* per key: number of chat turns taken so far
    appended,              \* history: per key, every message pushed by a chat turn
    appendedMem,           \* history: per key, every entry pushed by saveToMemory
    lastOp,                \* the last operation and what it answered
    before,                \* history: the map and the files as the last operation found them
    \* ---- part_001: the session memory kept in memory.json ----
    memoryJson,            \* MEMORY_FILE of part_001
    \* ---- server.js: saveToMemory under the advisory file lock ----
    fileLocks,             \* Map: file path -> ms since its entry was set, i.e.
                           \*   Date.now() - fileLocks.get(path)
    timers,                \* pending setTimeout callbacks of acquireLock:
                           \*   [call, path, age in ms since it was armed]
    pc,                    \* per saveToMemory call: where it is suspended
    callPath,              \* per call: memoryFile
    memoryData,            \* per call: memoryData.conversations
    holder,                \* history: per path, the call whose acquireLock set the entry
    forceLog,              \* console.warn('Force releasing lock ...'): the paths logged
    raised,                \* per call: an exception left saveToMemory
    lastRead,              \* what the last getMemoryContext read from disk
    \* ---- part_001: writing the files named by a model response ----
    disk,                  \* the files written: absolute path (its segments) -> content
    response,              \* the last response of fix-and-commit / create-webapp
    attempt,               \* history: the last request, the disk it found and the
                           \*   writeFileSync calls it made, in order
    requests,              \* number of requests served
    \* ---- server.js: chat handlers suspended at the provider call ----
    chat,                  \* per handler: where it is, its key, its turn, and
                           \*   whether the array it holds is still the Map's
    acquired,              \* history: the saveToMemory calls in the order their
                           \*   acquireLock returned
    selecting,             \* the POST /api/repo/select request: where it is
                           \*   suspended and the memory file of its repository
    \* ---- server.js: getRepoMemoryFile; part_000: ReactNativeBuilder ----
    named,                 \* history: the repository names resolved so far, each
                           \*   with the file name getRepoMemoryFile returned
    build                  \* buildAndTest(): where it is, its attempt, the error
                           \*   caught, completedBuilds and how it ended

convVars == <<version, booted, projectConversations, convFile, tmpFile, memFile,
              turns, appended, appendedMem, lastOp, before, memoryJson>>

lockVars == <<fileLocks, timers, pc, callPath, memoryData, holder, forceLog,
              raised, lastRead>>

extractVars == <<disk, response, attempt, requests>>

chatVars == <<chat>>

orderVars == <<acquired>>

selectVars == <<selecting>>

toolVars == <<named, build>>

vars == <<convVars, lockVars, extractVars, chatVars, orderVars, selectVars, toolVars>>

-----------------------------------------------------------------------------
(* JSON text as tokens *)

Tok(t, s, n) == [t |-> t, s |-> s, n |-> n]
LBrace == Tok("{", "", 0)
RBrace == Tok("}", "", 0)
LBrack == Tok("[", "", 0)
RBrack == Tok("]", "", 0)
Comma  == Tok(",", "", 0)
Colon  == Tok(":", "", 0)
Null   == Tok("null", "", 0)
KeyTok(k)  == Tok("key", k, 0)
NumTok(n)  == Tok("num", "", n)
ItemTok(m) == Tok("item", m.role, m.id)
\* a run of bytes that is no JSON at all
Junk   == Tok("junk", "", 0)

Msg(role, id) == [role |-> role, id |-> id]

IsAt(text, i, ty) == i \in 1..Len(text) /\ text[i].t = ty

\* values of a parsed document: an array of messages, or a scalar
ArrVal(items) == [isArr |-> TRUE, items |-> items, n |-> 0]
NumVal(n)     == [isArr |-> FALSE, items |-> <<>>, n |-> n]

EmptyObj == [k \in {} |-> ArrVal(<<>>)]

ParseError == [ok |-> FALSE, kind |-> "error", obj |-> EmptyObj, arr |-> <<>>]
ParsedObj(o) == [ok |-> TRUE, kind |-> "object", obj |-> o, arr |-> <<>>]
ParsedArr(a) == [ok |-> TRUE, kind |-> "array", obj |-> EmptyObj, arr |-> a]
ParsedNull   == [ok |-> TRUE, kind |-> "null", obj |-> EmptyObj, arr |-> <<>>]

\* index of the first "]" at or after i, 0 when there is none
CloseIdx(text, i) ==
    LET js == {j \in i..Len(text) : text[j].t = "]"}
    IN IF js = {} THEN 0 ELSE CHOOSE j \in js : \A x \in js : j <= x

\* text[i..j-1] is item (, item)* or empty
ItemsOK(text, i, j) ==
    \/ j = i
    \/ /\ (j - i) % 2 = 1
       /\ \A p \in i..(j - 1) :
            IF (p - i) % 2 = 0 THEN text[p].t = "item" ELSE text[p].t = ","

ItemsOf(text, i, j) ==
    [p \in 1..((j - i + 1) \div 2) |->
        Msg(text[i + 2 * (p - 1)].s, text[i + 2 * (p - 1)].n)]

Put(o, k, v) == [x \in (DOMAIN o) \cup {k} |-> IF x = k THEN v ELSE o[x]]

\* members of an object from position i on, up to the closing brace that
\* must be the last token
RECURSIVE ParseMembers(_, _, _)
ParseMembers(text, i, acc) ==
    IF ~(IsAt(text, i, "key") /\ IsAt(text, i + 1, ":")) THEN ParseError
    ELSE
      LET k == text[i].s
          isArr == IsAt(text, i + 2, "[")
          close == IF isArr THEN CloseIdx(text, i + 3) ELSE 0
          valEnd == IF isArr THEN close
                    ELSE IF IsAt(text, i + 2, "num") THEN i + 2 ELSE 0
          okVal == valEnd # 0 /\ (isArr => ItemsOK(text, i + 3, close))
          v == IF isArr THEN ArrVal(ItemsOf(text, i + 3, close))
               ELSE NumVal(text[i + 2].n)
      IN IF ~okVal THEN ParseError
         ELSE IF IsAt(text, valEnd + 1, "}") /\ valEnd + 1 = Len(text)
              THEN ParsedObj(Put(acc, k, v))
         ELSE IF IsAt(text, valEnd + 1, ",")
              THEN ParseMembers(text, valEnd + 2, Put(acc, k, v))
         ELSE ParseError

\* JSON.parse
JSONparse(text) ==
    IF text = <<Null>> THEN ParsedNull
    ELSE IF IsAt(text, 1, "[")
         THEN IF CloseIdx(text, 2) = Len(text) /\ ItemsOK(text, 2, Len(text))
              THEN ParsedArr(ItemsOf(text, 2, Len(text)))
              ELSE ParseError
    ELSE IF IsAt(text, 1, "{")
         THEN IF text = <<LBrace, RBrace>> THEN ParsedObj(EmptyObj)
              ELSE ParseMembers(text, 2, EmptyObj)
    ELSE ParseError

\* the items of an array as text: item (, item)*
ItemsText(items) ==
    IF items = <<>> THEN <<>>
    ELSE [i \in 1..(2 * Len(items) - 1) |->
            IF i % 2 = 1 THEN ItemTok(items[(i + 1) \div 2]) ELSE Comma]

ValueText(v) ==
    IF v.isArr THEN <<LBrack>> \o ItemsText(v.items) \o <<RBrack>>
    ELSE <<NumTok(v.n)>>

\* the members of object o for the keys of the sequence ks, in that order
RECURSIVE MembersText(_, _)
MembersText(o, ks) ==
    IF ks = <<>> THEN <<>>
    ELSE <<KeyTok(ks[1]), Colon>> \o ValueText(o[ks[1]])
         \o (IF Len(ks) = 1 THEN <<>> ELSE <<Comma>>)
         \o MembersText(o, Tail(ks))

\* JSON.stringify of an object whose own keys, in order, are ks
JSONstringify(o, ks) == <<LBrace>> \o MembersText(o, ks) \o <<RBrace>>

-----------------------------------------------------------------------------
(* Files *)

File(text) == [exists |-> TRUE, text |-> text]
Absent     == [exists |-> FALSE, text |-> <<>>]

\* the document parses (JSON.parse does not throw)
WellFormed(f) == f.exists /\ JSONparse(f.text).ok

-----------------------------------------------------------------------------
(* Conversation keys and memory file names *)

\* repository full names used as conversation keys
ConvKeys == {"a/x", "b/y"}

\* the characters of each key, in order
Chars(k) ==
    IF k = "a/x" THEN <<"a", "/", "x">>
    ELSE IF k = "b/y" THEN <<"b", "/", "y">>
    ELSE <<"d", "e", "f", "a", "u", "l", "t">>

UpperCase == {"A", "B", "X", "Y"}
AllowedChars == {"a", "b", "d", "e", "f", "l", "t", "u", "x", "y", "0", "1",
                 "-", "_", ".", "/"} \cup UpperCase

toLowerCase(c) ==
    IF c = "A" THEN "a" ELSE IF c = "B" THEN "b"
    ELSE IF c = "X" THEN "x" ELSE IF c = "Y" THEN "y" ELSE c

\* s.replace(/c{2,}/g, r): every maximal run of two or more c becomes one r
RECURSIVE CollapseRuns(_, _, _)
CollapseRuns(s, c, r) ==
    IF s = <<>> THEN <<>>
    ELSE IF Len(s) >= 2 /\ s[1] = c /\ s[2] = c
         THEN LET rest == Tail(Tail(s))
                  n == IF \E i \in 1..Len(rest) : rest[i] # c
                       THEN (CHOOSE i \in 1..Len(rest) :
                               rest[i] # c /\ \A j \in 1..(i - 1) : rest[j] = c) - 1
                       ELSE Len(rest)
              IN <<r>> \o CollapseRuns(SubSeq(rest, n + 1, Len(rest)), c, r)
    ELSE <<s[1]>> \o CollapseRuns(Tail(s), c, r)

RepoNameMax == 50

sanitizeInput(input, maxLength) ==
    IF input = <<>> THEN Chars("default")
    ELSE
      LET s1 == [i \in 1..Len(input) |->
                    IF input[i] \in AllowedChars THEN input[i] ELSE "_"]
          s2 == CollapseRuns(s1, ".", "_")
          s3 == CollapseRuns(s2, "/", "/")
          s4 == SubSeq(s3, 1, IF Len(s3) < maxLength THEN Len(s3) ELSE maxLength)
      IN [i \in 1..Len(s4) |-> toLowerCase(s4[i])]

\* the file name memory_<sanitized>.json, as its characters, of a repository
\* name given as its characters
RepoMemoryFileName(name) ==
    <<"memory_">> \o sanitizeInput(name, RepoNameMax) \o <<".json">>

getRepoMemoryFile(repoName) == RepoMemoryFileName(Chars(repoName))

\* saveToMemory / getMemoryContext: 'default' names MEMORY_FILE itself
MemoryFileOf(repoName) ==
    IF repoName = "default" THEN <<"memory.json">> ELSE getRepoMemoryFile(repoName)

MemPaths == {MemoryFileOf(k) : k \in ConvKeys}

-----------------------------------------------------------------------------
(* Trimming *)

HistoryCapV1 == 20
HistoryCapV2 == 40
MemoryCap == 100

HistoryCap(v) == IF v = "v1" THEN HistoryCapV1 ELSE HistoryCapV2

Last(h, n) == IF Len(h) > n THEN SubSeq(h, Len(h) - n + 1, Len(h)) ELSE h

\* a trim that keeps the oldest entries instead of the newest
TrimKeepsOldest(h, cap) == IF Len(h) > cap THEN SubSeq(h, 1, cap) ELSE h

\* if (history.length > cap) history.splice(0, history.length - cap), and
\* conversations.slice(-100)
Trim(h, cap) == IF Len(h) > cap THEN SubSeq(h, Len(h) - cap + 1, Len(h)) ELSE h

\* a turn of which only the user message is pushed
PushTurnUserOnly(h, u, a, cap) == Trim(Append(h, u), cap)
\* a turn whose reply is pushed before its user message
PushTurnReplyFirst(h, u, a, cap) == Trim(h \o <<a, u>>, cap)
\* history.push(user); history.push(assistant); trim
PushTurn(h, u, a, cap) == Trim(h \o <<u, a>>, cap)

-----------------------------------------------------------------------------
(* conversations.json: saveConversations / loadConversations *)

MapHas(m, k) == k \in DOMAIN m
MapSet(m, k, v) == [x \in (DOMAIN m) \cup {k} |-> IF x = k THEN v ELSE m[x]]
MapDelete(m, k) == [x \in (DOMAIN m) \ {k} |-> m[x]]
EmptyMap == [k \in {} |-> <<>>]

\* the keys of a map in a fixed order
RECURSIVE KeySeq(_)
KeySeq(S) ==
    IF S = {} THEN <<>>
    ELSE LET k == CHOOSE x \in S : TRUE IN <<k>> \o KeySeq(S \ {k})

\* JSON.stringify(Object.fromEntries(projectConversations))
ConversationsText(m) ==
    JSONstringify([k \in DOMAIN m |-> ArrVal(m[k])], KeySeq(DOMAIN m))

SaveOutcomes == {"ok", "writeFail", "renameFail", "cleanupFail"}

\* saveConversations: write the temp file, rename it over the document; on
\* an error unlink the temp file.  The result is <<document, temp file>>.
saveConversations(m, doc, tmp, outcome) ==
    IF outcome = "ok" THEN <<File(ConversationsText(m)), Absent>>
    ELSE IF outcome = "writeFail" THEN <<doc, Absent>>
    ELSE IF outcome = "renameFail" THEN <<doc, Absent>>
    ELSE <<doc, File(ConversationsText(m))>>

\* a load that sets a key only when its array has entries
LoadedMapSkipsEmpty(m, doc) ==
    IF ~doc.exists THEN m
    ELSE LET p == JSONparse(doc.text)
         IN IF p.ok /\ p.kind = "object"
            THEN [k \in (DOMAIN m) \cup {x \in DOMAIN p.obj :
                                            p.obj[x].isArr /\ p.obj[x].items # <<>>} |->
                    IF k \in DOMAIN p.obj /\ p.obj[k].isArr
                    THEN p.obj[k].items ELSE m[k]]
            ELSE m

\* what loadConversations leaves in the map (it starts from the map m)
LoadedMap(m, doc) ==
    IF ~doc.exists THEN m
    ELSE IF ~(IsAt(doc.text, 1, "{") \/ IsAt(doc.text, 1, "[")) THEN m
    ELSE LET p == JSONparse(doc.text)
         IN IF p.ok /\ p.kind = "object"
            THEN [k \in (DOMAIN m) \cup {x \in DOMAIN p.obj : p.obj[x].isArr} |->
                    IF k \in DOMAIN p.obj /\ p.obj[k].isArr
                    THEN p.obj[k].items ELSE m[k]]
            ELSE m

\* what loadConversations leaves on disk: an unreadable document is reset
\* to {} (unless that write fails too)
LoadedDoc(doc, resetOk) ==
    IF ~doc.exists THEN doc
    ELSE IF ~(IsAt(doc.text, 1, "{") \/ IsAt(doc.text, 1, "["))
         THEN IF resetOk THEN File(<<LBrace, RBrace>>) ELSE doc
    ELSE IF JSONparse(doc.text).ok THEN doc
    ELSE IF resetOk THEN File(<<LBrace, RBrace>>) ELSE doc

-----------------------------------------------------------------------------
(* memory_<repo>.json: the read-modify-write of saveToMemory *)

\* memoryData.conversations after the load step
MemLoaded(f) ==
    IF ~f.exists THEN <<>>
    ELSE LET p == JSONparse(f.text)
         IN IF p.ok /\ p.kind = "object"
               /\ "conversations" \in DOMAIN p.obj /\ p.obj["conversations"].isArr
            THEN p.obj["conversations"].items
            ELSE <<>>

\* push the new entry, keep the last 100
MemPush(convs, entry) == Trim(Append(convs, entry), MemoryCap)

\* JSON.stringify(memoryData)
MemText(convs) ==
    JSONstringify([k \in {"conversations", "totalConversations"} |->
                     IF k = "conversations" THEN ArrVal(convs) ELSE NumVal(Len(convs))],
                  <<"conversations", "totalConversations">>)

\* one whole saveToMemory call with no other call in flight and no I/O error
SaveToMemorySeq(f, entry) == File(MemText(MemPush(MemLoaded(f), entry)))

-----------------------------------------------------------------------------
(* Initial contents of the disk *)

\* n earlier messages, oldest first (ids at or below 0; chat turns count from 1)
PreHistory(n) ==
    [i \in 1..n |-> Msg(IF i % 2 = 1 THEN "user" ELSE "assistant", i - n)]

UserMsg(t) == Msg("user", t)
AssistantMsg(t) == Msg("assistant", t)

NoTurns == [k \in ConvKeys |-> 0]
NoHistory == [k \in ConvKeys |-> <<>>]

\* what an operation found: the map, conversations.json, the memory file of
\* its key, and memory.json
Found(mem) == [map |-> projectConversations, conv |-> convFile, mem |-> mem,
               json |-> memoryJson]

NothingBefore == [map |-> EmptyMap, conv |-> Absent, mem |-> Absent, json |-> Absent]

ServerVersions == {"v1", "v2"}

InitConv(convFiles, memFiles) ==
    /\ version \in ServerVersions
    /\ memoryJson = Absent
    /\ booted = FALSE
    /\ projectConversations = EmptyMap
    /\ convFile \in convFiles
    /\ tmpFile = Absent
    /\ \E f \in memFiles : memFile = [p \in MemPaths |-> f]
    /\ turns = NoTurns
    /\ appended = NoHistory
    /\ appendedMem = [p \in MemPaths |-> MemLoaded(memFile[p])]
    /\ lastOp = [op |-> "none", key |-> "", out |-> ""]
    /\ before = NothingBefore

-----------------------------------------------------------------------------
(* Operations of the conversation store, each run from start to end *)

\* module load: loadConversations()
Boot ==
    /\ ~booted
    /\ booted' = TRUE
    /\ projectConversations' = LoadedMap(EmptyMap, convFile)
    /\ \E resetOk \in BOOLEAN : convFile' = LoadedDoc(convFile, resetOk)
    /\ appended' = [k \in ConvKeys |->
                      IF MapHas(projectConversations', k)
                      THEN projectConversations'[k] ELSE <<>>]
    /\ lastOp' = [op |-> "load", key |-> "", out |-> "ok"]
    /\ before' = Found(Absent)
    /\ UNCHANGED <<version, tmpFile, memFile, turns, appendedMem, memoryJson>>

\* POST /api/chat with the provider answering: both pushes, the trim, the
\* save, and in v2 the two saveToMemory calls
ChatTurn(k, maxTurns, outcomes) ==
    /\ booted
    /\ before' = Found(memFile[MemoryFileOf(k)])
    /\ turns[k] < maxTurns
    /\ LET t == turns[k] + 1
           h0 == IF MapHas(projectConversations, k) THEN projectConversations[k] ELSE <<>>
           h1 == PushTurn(h0, UserMsg(t), AssistantMsg(t), HistoryCap(version))
           p == MemoryFileOf(k)
       IN /\ projectConversations' = MapSet(projectConversations, k, h1)
          /\ \E outcome \in outcomes :
                /\ convFile' = saveConversations(projectConversations', convFile,
                                                 tmpFile, outcome)[1]
                /\ tmpFile' = saveConversations(projectConversations', convFile,
                                                tmpFile, outcome)[2]
                /\ lastOp' = [op |-> "chat", key |-> k, out |-> outcome]
          /\ turns' = [turns EXCEPT ![k] = t]
          /\ appended' = [appended EXCEPT ![k] = @ \o <<UserMsg(t), AssistantMsg(t)>>]
          /\ IF version = "v2"
             THEN /\ memFile' = [memFile EXCEPT ![p] =
                        SaveToMemorySeq(SaveToMemorySeq(@, UserMsg(t)), AssistantMsg(t))]
                  /\ appendedMem' = [appendedMem EXCEPT ![p] =
                        @ \o <<UserMsg(t), AssistantMsg(t)>>]
             ELSE UNCHANGED <<memFile, appendedMem>>
    /\ UNCHANGED <<version, booted, memoryJson>>

\* POST /api/chat with the provider call failing: the key has been created
\* (an empty array) and nothing is pushed or saved
ChatFail(k) ==
    /\ booted
    /\ ~MapHas(projectConversations, k)
    /\ projectConversations' = MapSet(projectConversations, k, <<>>)
    /\ lastOp' = [op |-> "chatFail", key |-> k, out |-> "error"]
    /\ before' = Found(Absent)
    /\ UNCHANGED <<version, booted, convFile, tmpFile, memFile, turns, appended,
                   appendedMem, memoryJson>>

-----------------------------------------------------------------------------
(* part_001: paths.  A path text is its segments between "/" and whether   *)
(* it starts with "/"; a resolved path is the sequence of its segments     *)
(* from the root.                                                          *)

PathText(abs, segs) == [abs |-> abs, segs |-> segs]
Rel(segs) == PathText(FALSE, segs)
\* no path given (undefined)
NoPath == PathText(FALSE, <<>>)

\* __dirname
ServerDir == <<"srv", "app">>

\* path.normalize on an absolute path: "." is dropped, ".." removes the
\* segment before it and is dropped at the root
RECURSIVE Resolve(_, _)
Resolve(stack, segs) ==
    IF segs = <<>> THEN stack
    ELSE IF segs[1] = "." THEN Resolve(stack, Tail(segs))
    ELSE IF segs[1] = ".."
         THEN Resolve(IF stack = <<>> THEN <<>> ELSE SubSeq(stack, 1, Len(stack) - 1),
                      Tail(segs))
    ELSE Resolve(Append(stack, segs[1]), Tail(segs))

\* path.join(dir, p): the two joined with "/" and normalized; a leading "/"
\* of p is one more separator
pathJoin(dir, p) == Resolve(<<>>, dir \o p.segs)

IsPrefix(a, b) == Len(a) <= Len(b) /\ SubSeq(b, 1, Len(a)) = a

NoFiles == [f \in {} |-> [src |-> "", id |-> ""]]

\* the model's answer: its FILES_TO_MODIFY entries, its fenced blocks, and
\* whether its text includes 'CLI'
Solution(directives, blocks, mentionsCLI) ==
    [given |-> TRUE, directives |-> directives, blocks |-> blocks,
     mentionsCLI |-> mentionsCLI]
\* a response body with no solution member
NoSolution == [given |-> FALSE, directives |-> <<>>, blocks |-> <<>>,
               mentionsCLI |-> FALSE]

NoResponse == [op |-> "none", status |-> 0, files |-> <<>>, applied |-> FALSE,
               fixedCode |-> "", solution |-> NoSolution]

NoAttempt == [op |-> "none", action |-> "", filePath |-> NoPath, error |-> "",
              solution |-> NoSolution, diskBefore |-> NoFiles, writes |-> <<>>]

InitExtractIdle ==
    /\ disk = NoFiles
    /\ response = NoResponse
    /\ attempt = NoAttempt
    /\ requests = 0

-----------------------------------------------------------------------------
(* saveToMemory under acquireLock / releaseLock, one step per suspension   *)
(* point (await).  The program compares times with the 30 s ceiling only,  *)
(* so a lock entry and a timer carry their age, which grows in steps of    *)
(* the ceiling and is followed no further than "more than the ceiling":    *)
(* a timer can run when Date.now() - lockTime is exactly 30000, or more.   *)

LockCeilingMs == 30000
TickMs == LockCeilingMs
PastCeiling == LockCeilingMs + TickMs

NumCalls == 2

Calls == 1..NumCalls
NoCall == 0

\* the entry a call pushes
EntryOf(c) == Msg("user", c)

\* the calls between their acquireLock return and their releaseLock.  A call
\* that never takes its next step is a holder that never releases: an awaited
\* file operation that does not settle.
InSection == {"locked", "read", "open", "write", "written", "rejected"}

NoRead == [path |-> MemoryFileOf("default"), file |-> Absent, read |-> FALSE]

\* the calls that have returned
Finished == {"done", "failed"}

\* buildAndTest() not called
NoBuild == [pc |-> "idle", attempt |-> 0, error |-> {}, completedBuilds |-> <<>>,
            result |-> ""]

\* no select request made
NoSelect == [pc |-> "idle", path |-> <<>>]

NumChats == 2

\* the chat handlers that can be in flight together
Chats == 1..NumChats

\* a handler that is not serving a request
NoChat == [pc |-> "idle", key |-> "", turn |-> 0, live |-> FALSE]

\* no chat handler in flight, no saveToMemory call made
InitChatIdle ==
    /\ chat = [c \in Chats |-> NoChat]
    /\ acquired = <<>>
    /\ selecting = NoSelect
    /\ named = {}
    /\ build = NoBuild

InitLockIdle ==
    /\ InitExtractIdle
    /\ InitChatIdle
    /\ fileLocks = [p \in {} |-> 0]
    /\ timers = {}
    /\ pc = [c \in Calls |-> "idle"]
    /\ callPath = [c \in Calls |-> MemoryFileOf("default")]
    /\ memoryData = [c \in Calls |-> <<>>]
    /\ holder = [p \in MemPaths |-> NoCall]
    /\ forceLog = {}
    /\ raised = [c \in Calls |-> FALSE]
    /\ lastRead = NoRead

\* while (fileLocks.has(filePath)) await sleep(50): the loop is left when
\* the path has no entry
LockFree(locks, p) == p \notin DOMAIN locks

\* fileLocks.delete(filePath)
releaseLock(locks, p) == [x \in (DOMAIN locks) \ {p} |-> locks[x]]

Expired(locks, p) == p \in DOMAIN locks /\ locks[p] > LockCeilingMs

\* an age after TickMs more
Older(age) == IF age + TickMs > PastCeiling THEN PastCeiling ELSE age + TickMs

\* the lock map after the try block ends normally: finally { releaseLock }
OnResolved(locks, p) == releaseLock(locks, p)

\* catch (error) { console.error(...) }: the exception is not thrown again
EscapesCatch == FALSE

\* the lock map after an exception in the try block: the catch logs it, then
\* finally { releaseLock }
OnRejectedNoFinally(locks, p) == locks
OnRejected(locks, p) == releaseLock(locks, p)

\* saveToMemory is called: the call enters acquireLock, where it polls
Call(c) ==
    /\ pc[c] = "idle"
    /\ pc' = [pc EXCEPT ![c] = "acquire"]
    /\ UNCHANGED <<fileLocks, timers, callPath, memoryData, holder, forceLog,
                   raised, lastRead, memFile>>

\* acquireLock past its loop: set the entry, arm the 30 s timer
Acquire(c) ==
    /\ pc[c] = "acquire"
    /\ LockFree(fileLocks, callPath[c])
    /\ fileLocks' = [x \in (DOMAIN fileLocks) \cup {callPath[c]} |->
                       IF x = callPath[c] THEN 0 ELSE fileLocks[x]]
    /\ timers' = timers \cup {[call |-> c, path |-> callPath[c], age |-> 0]}
    /\ holder' = [holder EXCEPT ![callPath[c]] = c]
    /\ acquired' = Append(acquired, c)
    /\ pc' = [pc EXCEPT ![c] = "locked"]
    /\ UNCHANGED <<callPath, memoryData, forceLog, raised, lastRead,
                   memFile>>

\* await fs.pathExists(memoryFile)
PathExists(c) ==
    /\ pc[c] = "locked"
    /\ IF memFile[callPath[c]].exists
       THEN /\ pc' = [pc EXCEPT ![c] = "read"]
            /\ UNCHANGED memoryData
       ELSE /\ pc' = [pc EXCEPT ![c] = "open"]
            /\ memoryData' = [memoryData EXCEPT ![c] = MemPush(<<>>, EntryOf(c))]
    /\ UNCHANGED <<fileLocks, timers, callPath, holder, forceLog,
                   raised, lastRead, memFile>>

\* await fs.readFile, JSON.parse (an error resets memoryData), push, trim,
\* stringify, and the call of fs.writeFile; reads says whether the read can
\* fail
ReadFile(c, reads) ==
    /\ pc[c] = "read"
    /\ \E readOk \in reads :
         memoryData' = [memoryData EXCEPT ![c] =
            MemPush(IF readOk THEN MemLoaded(memFile[callPath[c]]) ELSE <<>>,
                    EntryOf(c))]
    /\ pc' = [pc EXCEPT ![c] = "open"]
    /\ UNCHANGED <<fileLocks, timers, callPath, holder, forceLog,
                   raised, lastRead, memFile>>

\* fs.writeFile opens the file with flag 'w': it is truncated to length 0;
\* or the open fails and writeFile rejects
WriteOpen(c) ==
    /\ pc[c] = "open"
    /\ \/ /\ memFile' = [memFile EXCEPT ![callPath[c]] = File(<<>>)]
          /\ pc' = [pc EXCEPT ![c] = "write"]
       \/ /\ pc' = [pc EXCEPT ![c] = "rejected"]
          /\ UNCHANGED memFile
    /\ UNCHANGED <<fileLocks, timers, callPath, memoryData, holder, forceLog, raised, lastRead>>

\* fs.writeFile writes the data; or the write fails part-way and rejects
WriteData(c) ==
    /\ pc[c] = "write"
    /\ LET text == MemText(memoryData[c])
       IN \/ /\ memFile' = [memFile EXCEPT ![callPath[c]] = File(text)]
             /\ pc' = [pc EXCEPT ![c] = "written"]
          \/ /\ memFile' = [memFile EXCEPT ![callPath[c]] =
                              File(SubSeq(text, 1, Len(text) \div 2))]
             /\ pc' = [pc EXCEPT ![c] = "rejected"]
    /\ UNCHANGED <<fileLocks, timers, callPath, memoryData, holder, forceLog, raised, lastRead>>

\* the continuation after await fs.writeFile resolves: log, then finally
Written(c) ==
    /\ pc[c] = "written"
    /\ fileLocks' = OnResolved(fileLocks, callPath[c])
    /\ holder' = [holder EXCEPT ![callPath[c]] =
                    IF callPath[c] \in DOMAIN fileLocks' THEN @ ELSE NoCall]
    /\ pc' = [pc EXCEPT ![c] = "done"]
    /\ UNCHANGED <<timers, callPath, memoryData, forceLog, raised,
                   lastRead, memFile>>

\* the continuation after await fs.writeFile rejects: catch, then finally;
\* the exception is not rethrown
Rejected(c) ==
    /\ pc[c] = "rejected"
    /\ fileLocks' = OnRejected(fileLocks, callPath[c])
    /\ holder' = [holder EXCEPT ![callPath[c]] =
                    IF callPath[c] \in DOMAIN fileLocks' THEN @ ELSE NoCall]
    /\ raised' = [raised EXCEPT ![c] = EscapesCatch]
    /\ pc' = [pc EXCEPT ![c] = "failed"]
    /\ UNCHANGED <<timers, callPath, memoryData, forceLog, lastRead, memFile>>

\* a timer armed by acquireLock runs, at its due time or later
TimerFires(t) ==
    /\ t \in timers
    /\ t.age >= LockCeilingMs
    /\ timers' = timers \ {t}
    /\ IF Expired(fileLocks, t.path)
       THEN /\ fileLocks' = releaseLock(fileLocks, t.path)
            /\ holder' = [holder EXCEPT ![t.path] = NoCall]
            /\ forceLog' = forceLog \cup {t.path}
       ELSE UNCHANGED <<fileLocks, holder, forceLog>>
    /\ UNCHANGED <<pc, callPath, memoryData, raised, lastRead, memFile>>

\* time passes
Tick ==
    /\ fileLocks' = [p \in DOMAIN fileLocks |-> Older(fileLocks[p])]
    /\ timers' = {[call |-> t.call, path |-> t.path, age |-> Older(t.age)] : t \in timers}
    /\ UNCHANGED <<pc, callPath, memoryData, holder, forceLog, raised,
                   lastRead, memFile>>

\* getMemoryContext reads the file (it takes no lock)
GetMemoryContext(p) ==
    /\ memFile[p].exists
    /\ lastRead' = [path |-> p, file |-> memFile[p], read |-> TRUE]
    /\ UNCHANGED <<fileLocks, timers, pc, callPath, memoryData, holder,
                   forceLog, raised, memFile>>

convIdleVars == <<version, booted, projectConversations, convFile, tmpFile, turns,
                  appended, appendedMem, lastOp, before, memoryJson>>

\* the 30 s timer armed by call c has run
TimerRan(c) == pc[c] \notin {"idle", "acquire"} /\ \A t \in timers : t.call # c

LockMemFiles == {Absent, File(MemText(PreHistory(1)))}

\* The calls of one behaviour contend for one memory file: calls on
\* different files share no state but the clock.
InitLock ==
    /\ InitConv({Absent}, LockMemFiles)
    /\ InitExtractIdle
    /\ InitChatIdle
    /\ version = "v2"
    /\ fileLocks = [p \in {} |-> 0]
    /\ timers = {}
    /\ pc = [c \in Calls |-> "idle"]
    /\ \E p \in MemPaths : callPath = [c \in Calls |-> p]
    /\ memoryData = [c \in Calls |-> <<>>]
    /\ holder = [p \in MemPaths |-> NoCall]
    /\ forceLog = {}
    /\ raised = [c \in Calls |-> FALSE]
    /\ lastRead = NoRead

NextLock ==
    \/ \E c \in Calls : Call(c) /\ UNCHANGED <<convIdleVars, extractVars, chatVars, orderVars, selectVars, toolVars>>
    \/ \E c \in Calls : Acquire(c) /\ UNCHANGED <<convIdleVars, extractVars, chatVars, selectVars, toolVars>>
    \/ \E c \in Calls : PathExists(c) /\ UNCHANGED <<convIdleVars, extractVars, chatVars, orderVars, selectVars, toolVars>>
    \/ \E c \in Calls : ReadFile(c, BOOLEAN) /\ UNCHANGED <<convIdleVars, extractVars, chatVars, orderVars, selectVars, toolVars>>
    \/ \E c \in Calls : WriteOpen(c) /\ UNCHANGED <<convIdleVars, extractVars, chatVars, orderVars, selectVars, toolVars>>
    \/ \E c \in Calls : WriteData(c) /\ UNCHANGED <<convIdleVars, extractVars, chatVars, orderVars, selectVars, toolVars>>
    \/ \E c \in Calls : Written(c) /\ UNCHANGED <<convIdleVars, extractVars, chatVars, orderVars, selectVars, toolVars>>
    \/ \E c \in Calls : Rejected(c) /\ UNCHANGED <<convIdleVars, extractVars, chatVars, orderVars, selectVars, toolVars>>
    \/ \E t \in timers : TimerFires(t) /\ UNCHANGED <<convIdleVars, extractVars, chatVars, orderVars, selectVars, toolVars>>
    \/ Tick /\ UNCHANGED <<convIdleVars, extractVars, chatVars, orderVars, selectVars, toolVars>>

SpecLock == InitLock /\ [][NextLock]_vars

\* SpecAtomic: the same calls, and getMemoryContext reading the file at any
\* moment
NextAtomic ==
    \/ NextLock
    \/ \E p \in MemPaths : GetMemoryContext(p) /\ UNCHANGED <<convIdleVars, extractVars, chatVars, orderVars, selectVars, toolVars>>

SpecAtomic == InitLock /\ [][NextAtomic]_vars


\* the calls inside their critical section on path p
Inside(p) == {c \in Calls : callPath[c] = p /\ pc[c] \in InSection}

\* C2: at no moment are two calls both between their acquireLock return and
\* their releaseLock for the same path, whatever the duration of a call's
\* read-modify-write section.
MutualExclusion == \A p \in MemPaths : Cardinality(Inside(p)) <= 1

\* C4: a lock held past the 30 s ceiling by a call that does not release it
\* is force-released by the timer that call armed: while such a lock is still
\* held, its timer is still pending.
StaleLockForceReleased ==
    \A c \in Calls :
        (/\ pc[c] \in InSection
         /\ holder[callPath[c]] = c
         /\ fileLocks[callPath[c]] > LockCeilingMs) => ~TimerRan(c)

\* C5: when a saveToMemory call has returned, normally or after a failed
\* write, the lock entry it set is gone and no exception left the call.
GuaranteedRelease ==
    \A c \in Calls :
        pc[c] \in Finished => (holder[callPath[c]] # c /\ ~raised[c])

\* a call that failed in fs.writeFile has returned and its path is unlocked
ReleaseAfterFailureWitness ==
    \E c \in Calls : pc[c] = "failed" /\ callPath[c] \notin DOMAIN fileLocks

\* C3: a getMemoryContext that runs while a saveToMemory for the same file
\* is in flight reads a complete document, never a partially written one.
LoadSeesCompleteDocument == lastRead.read => WellFormed(lastRead.file)

\* C7: the document on disk is valid JSON in every reachable state,
\* including the states between the start and the end of a write.
DocumentAlwaysValid == \A p \in MemPaths : memFile[p].exists => WellFormed(memFile[p])

-----------------------------------------------------------------------------
(* SpecTrim: chat turns one after the other, starting from an empty disk or *)
(* from documents that already hold a history close to a cap.  Every save  *)
(* succeeds here; failing saves are the subject of SpecStore.              *)

MaxTurnsTrim == 21

TrimConvFiles ==
    {Absent} \cup
    {File(ConversationsText([k \in {"a/x"} |-> PreHistory(n)])) :
        n \in {HistoryCapV1 - 1, HistoryCapV2 - 1}}

TrimMemFiles == {Absent, File(MemText(PreHistory(MemoryCap - 3)))}

InitTrim == InitConv(TrimConvFiles, TrimMemFiles) /\ InitLockIdle

NextTrim ==
    \/ Boot /\ UNCHANGED <<lockVars, extractVars, chatVars, orderVars, selectVars, toolVars>>
    \/ \E k \in ConvKeys : ChatTurn(k, MaxTurnsTrim, {"ok"}) /\ UNCHANGED <<lockVars, extractVars, chatVars, orderVars, selectVars, toolVars>>
    \/ \E k \in ConvKeys : ChatFail(k) /\ UNCHANGED <<lockVars, extractVars, chatVars, orderVars, selectVars, toolVars>>

SpecTrim == InitTrim /\ [][NextTrim]_vars

\* C1: once the messages appended under a key exceed the cap (20 and 40 in
\* the chat handlers, 100 in saveToMemory), the stored list has exactly cap
\* entries and they are the most recent cap appended, in append order.
TrimKeepsMostRecent ==
    \A k \in ConvKeys :
      turns[k] >= 1 =>
        /\ Len(appended[k]) > HistoryCap(version) =>
             /\ MapHas(projectConversations, k)
             /\ Len(projectConversations[k]) = HistoryCap(version)
             /\ projectConversations[k] = Last(appended[k], HistoryCap(version))
        /\ (version = "v2" /\ Len(appendedMem[MemoryFileOf(k)]) > MemoryCap) =>
             /\ Len(MemLoaded(memFile[MemoryFileOf(k)])) = MemoryCap
             /\ MemLoaded(memFile[MemoryFileOf(k)])
                  = Last(appendedMem[MemoryFileOf(k)], MemoryCap)

\* a key whose chat history and memory file have both gone past their caps
TrimWitness ==
    /\ version = "v2"
    /\ \E k \in ConvKeys :
         /\ turns[k] >= 2
         /\ Len(appended[k]) > HistoryCapV2
         /\ Len(appendedMem[MemoryFileOf(k)]) > MemoryCap

-----------------------------------------------------------------------------
(* part_001: the session memory.  memory.json holds                        *)
(*   { "conversations": { <sessionId>: { messages: [...] }, ... }, ... }   *)
(* A session is modelled by its messages array, one item per {user, ai}    *)
(* exchange; the members repositories, codeHistory and errorFixes are not  *)
(* touched by the operations modelled here and are left out.               *)

\* JSON.stringify(memory)
MemoryText(convs) ==
    <<LBrace, KeyTok("conversations"), Colon>> \o ConversationsText(convs) \o <<RBrace>>

DefaultMemory == [kind |-> "memory", conversations |-> EmptyMap]
\* an object with no conversations member, such as {}
BareMemory == [kind |-> "bare", conversations |-> EmptyMap]
\* any other JSON value; the operations below are not followed on it
OtherMemory == [kind |-> "other", conversations |-> EmptyMap]
\* the exception of JSON.parse, not caught
Thrown == [kind |-> "thrown", conversations |-> EmptyMap]

\* existsSync, readFileSync, JSON.parse; onError is the result when JSON.parse
\* throws
ReadMemory(f, onError) ==
    IF ~f.exists THEN DefaultMemory
    ELSE LET t == f.text
             n == Len(t)
             wrapped == /\ n >= 6
                        /\ t[1] = LBrace /\ t[2] = KeyTok("conversations")
                        /\ t[3] = Colon /\ t[4] = LBrace /\ t[n] = RBrace
             inner == IF wrapped THEN JSONparse(SubSeq(t, 4, n - 1)) ELSE ParseError
             flat == JSONparse(t)
         IN IF wrapped /\ inner.ok
            THEN [kind |-> "memory",
                  conversations |->
                     [k \in {x \in DOMAIN inner.obj : inner.obj[x].isArr} |->
                         inner.obj[k].items]]
            ELSE IF flat.ok
                 THEN IF flat.kind = "object" /\ "conversations" \notin DOMAIN flat.obj
                      THEN BareMemory ELSE OtherMemory
            ELSE onError

\* a loadMemory without its try/catch
loadMemoryNoCatch(f) == ReadMemory(f, Thrown)
\* loadMemory: a parse error is logged and the default memory returned
loadMemory(f) == ReadMemory(f, DefaultMemory)

WriteOutcomes == {"ok", "openFail", "writeFail"}

\* saveMemory: fs.writeFileSync in place; errors are logged, not raised
saveMemory(convs, f, outcome) ==
    IF outcome = "ok" THEN File(MemoryText(convs))
    ELSE IF outcome = "openFail" THEN f
    ELSE File(SubSeq(MemoryText(convs), 1, Len(MemoryText(convs)) \div 2))

\* no key in the request body (undefined)
NoKey == ""

ClearRequests == ConvKeys \cup {NoKey}

\* addToMemory(sessionId, message, response)
AddToMemory(sid, maxTurns, outcomes) ==
    /\ version = "p1"
    /\ turns[sid] < maxTurns
    /\ loadMemory(memoryJson).kind # "other"
    /\ LET m == loadMemory(memoryJson)
           t == turns[sid] + 1
           old == IF MapHas(m.conversations, sid) THEN m.conversations[sid] ELSE <<>>
       IN /\ IF m.kind = "memory"
             THEN \E outcome \in outcomes :
                    /\ memoryJson' = saveMemory(MapSet(m.conversations, sid,
                                                       Append(old, UserMsg(t))),
                                                memoryJson, outcome)
                    /\ lastOp' = [op |-> "add", key |-> sid, out |-> outcome]
             ELSE /\ UNCHANGED memoryJson
                  /\ lastOp' = [op |-> "add", key |-> sid, out |-> "raised"]
          /\ turns' = [turns EXCEPT ![sid] = t]
          /\ appended' = [appended EXCEPT ![sid] = Append(@, UserMsg(t))]
    /\ before' = Found(Absent)
    /\ UNCHANGED <<version, booted, projectConversations, convFile, tmpFile, memFile,
                   appendedMem>>

\* POST /api/clear-conversation of part_001
ClearSession(req) ==
    /\ version = "p1"
    /\ loadMemory(memoryJson).kind # "other"
    /\ LET m == loadMemory(memoryJson)
       IN IF m.kind = "memory" /\ req # NoKey /\ MapHas(m.conversations, req)
          THEN \E outcome \in WriteOutcomes :
                 /\ memoryJson' = saveMemory(MapDelete(m.conversations, req),
                                             memoryJson, outcome)
                 /\ lastOp' = [op |-> "clearSession", key |-> req, out |-> outcome]
          ELSE IF req = NoKey
          THEN \E outcome \in WriteOutcomes :
                 /\ memoryJson' = saveMemory(EmptyMap, memoryJson, outcome)
                 /\ lastOp' = [op |-> "clearSession", key |-> req, out |-> outcome]
          ELSE /\ UNCHANGED memoryJson
               /\ lastOp' = [op |-> "clearSession", key |-> req,
                             out |-> IF m.kind = "memory" THEN "notFound" ELSE "raised"]
    /\ before' = Found(Absent)
    /\ UNCHANGED <<version, booted, projectConversations, convFile, tmpFile, memFile,
                   turns, appended, appendedMem>>

\* POST /api/chat while DEEPSEEK_API_KEY is not set.  server.js answers 503
\* before it touches the conversation; the handler of part_001 that reads
\* process.env.DEEPSEEK_API_KEY calls getMemoryContext, answers with the
\* fallback text and records the exchange with addToMemory; a TypeError of
\* either goes to the handler's catch, which answers 500
ChatNoProvider(k, maxTurns) ==
    /\ version \in ServerVersions => booted
    /\ version = "p1" => turns[k] < maxTurns /\ loadMemory(memoryJson).kind # "other"
    /\ LET m == loadMemory(memoryJson)
           t == turns[k] + 1
           old == IF MapHas(m.conversations, k) THEN m.conversations[k] ELSE <<>>
       IN IF version \in ServerVersions
          THEN /\ lastOp' = [op |-> "chatNoProvider", key |-> k, out |-> "503"]
               /\ UNCHANGED <<memoryJson, turns, appended>>
          ELSE IF m.kind = "memory"
          THEN /\ \E outcome \in WriteOutcomes :
                     memoryJson' = saveMemory(MapSet(m.conversations, k,
                                                     Append(old, UserMsg(t))),
                                              memoryJson, outcome)
               /\ lastOp' = [op |-> "chatNoProvider", key |-> k, out |-> "fallback"]
               /\ turns' = [turns EXCEPT ![k] = t]
               /\ appended' = [appended EXCEPT ![k] = Append(@, UserMsg(t))]
          ELSE /\ lastOp' = [op |-> "chatNoProvider", key |-> k, out |-> "500"]
               /\ UNCHANGED <<memoryJson, turns, appended>>
    /\ before' = Found(Absent)
    /\ UNCHANGED <<version, booted, projectConversations, convFile, tmpFile, memFile,
                   appendedMem>>

-----------------------------------------------------------------------------
(* server.js: clearing, and a restart of the process *)

\* POST /api/clear-conversation of server.js
ClearConversation(repoName) ==
    /\ version \in ServerVersions
    /\ booted
    /\ projectConversations' =
          IF repoName # NoKey /\ MapHas(projectConversations, repoName)
          THEN MapDelete(projectConversations, repoName)
          ELSE EmptyMap
    /\ \E outcome \in SaveOutcomes :
          /\ convFile' = saveConversations(projectConversations', convFile,
                                           tmpFile, outcome)[1]
          /\ tmpFile' = saveConversations(projectConversations', convFile,
                                          tmpFile, outcome)[2]
          /\ lastOp' = [op |-> "clear", key |-> repoName, out |-> outcome]
    /\ appended' = [k \in ConvKeys |->
                      IF MapHas(projectConversations', k) THEN appended[k] ELSE <<>>]
    /\ before' = Found(Absent)
    /\ UNCHANGED <<version, booted, memFile, turns, appendedMem, memoryJson>>

\* the process ends and the module is loaded again: a new Map, then
\* loadConversations()
Reload ==
    /\ version \in ServerVersions
    /\ booted
    /\ projectConversations' = LoadedMap(EmptyMap, convFile)
    /\ \E resetOk \in BOOLEAN : convFile' = LoadedDoc(convFile, resetOk)
    /\ appended' = [k \in ConvKeys |->
                      IF MapHas(projectConversations', k)
                      THEN projectConversations'[k] ELSE <<>>]
    /\ lastOp' = [op |-> "reload", key |-> "", out |-> "ok"]
    /\ before' = Found(Absent)
    /\ UNCHANGED <<version, booted, tmpFile, memFile, turns, appendedMem, memoryJson>>

-----------------------------------------------------------------------------
(* SpecStore: the stores over a disk that may hold damaged documents, with *)
(* saves that can fail.                                                    *)

MaxTurnsStore == 1

GoodConversations == ConversationsText([k \in {"a/x"} |-> PreHistory(2)])
GoodMemory == MemText(PreHistory(2))
GoodSessions == MemoryText([k \in {"a/x"} |-> PreHistory(1)])

\* a document cut short by an interrupted write
Truncated(text) == File(SubSeq(text, 1, Len(text) - 2))

StoreConvFiles == {Absent, File(GoodConversations), Truncated(GoodConversations),
                   File(<<Junk>>), File(<<>>), File(<<Null>>)}
StoreMemoryJsons == {Absent, File(GoodSessions), Truncated(GoodSessions),
                     File(<<Junk>>), File(<<>>), File(<<LBrace, RBrace>>)}

\* the memory files found next to a conversations.json: in the same condition
MemFileBeside(conv) ==
    IF conv = Absent THEN Absent
    ELSE IF conv = File(GoodConversations) THEN File(GoodMemory)
    ELSE IF conv = Truncated(GoodConversations) THEN Truncated(GoodMemory)
    ELSE IF conv = File(<<Null>>) THEN File(GoodMemory)
    ELSE conv

InitStore ==
    /\ version \in ServerVersions \cup {"p1"}
    /\ booted = FALSE
    /\ projectConversations = EmptyMap
    /\ convFile \in IF version = "p1" THEN {Absent} ELSE StoreConvFiles
    /\ tmpFile = Absent
    /\ memFile = [p \in MemPaths |->
                    IF version = "v2" THEN MemFileBeside(convFile) ELSE Absent]
    /\ memoryJson \in IF version = "p1" THEN StoreMemoryJsons ELSE {Absent}
    /\ turns = NoTurns
    /\ appended = NoHistory
    /\ appendedMem = [p \in MemPaths |-> MemLoaded(memFile[p])]
    /\ lastOp = [op |-> "none", key |-> "", out |-> ""]
    /\ before = NothingBefore
    /\ InitLockIdle

NextStore ==
    \/ version \in ServerVersions /\ Boot /\ UNCHANGED <<lockVars, extractVars, chatVars, orderVars, selectVars, toolVars>>
    \/ \E k \in ConvKeys :
         version \in ServerVersions /\ ChatTurn(k, MaxTurnsStore, SaveOutcomes)
         /\ UNCHANGED <<lockVars, extractVars, chatVars, orderVars, selectVars, toolVars>>
    \/ \E k \in ConvKeys : version \in ServerVersions /\ ChatFail(k) /\ UNCHANGED <<lockVars, extractVars, chatVars, orderVars, selectVars, toolVars>>
    \/ \E r \in ClearRequests : ClearConversation(r) /\ UNCHANGED <<lockVars, extractVars, chatVars, orderVars, selectVars, toolVars>>
    \/ Reload /\ UNCHANGED <<lockVars, extractVars, chatVars, orderVars, selectVars, toolVars>>
    \/ \E k \in ConvKeys : AddToMemory(k, MaxTurnsStore, WriteOutcomes) /\ UNCHANGED <<lockVars, extractVars, chatVars, orderVars, selectVars, toolVars>>
    \/ \E r \in ClearRequests : ClearSession(r) /\ UNCHANGED <<lockVars, extractVars, chatVars, orderVars, selectVars, toolVars>>
    \/ \E k \in ConvKeys :
         ChatNoProvider(k, MaxTurnsStore) /\ UNCHANGED <<lockVars, extractVars, chatVars, orderVars, selectVars, toolVars>>

SpecStore == InitStore /\ [][NextStore]_vars

\* JSON.parse throws on the document
Malformed(f) == f.exists /\ ~JSONparse(f.text).ok
MalformedMemory(f) == f.exists /\ ReadMemory(f, Thrown).kind = "thrown"

\* the last two messages stored under key k in conversations.json
StoredTail(k) ==
    IF MapHas(LoadedMap(EmptyMap, convFile), k)
    THEN Last(LoadedMap(EmptyMap, convFile)[k], 2) ELSE <<>>

\* C6: a truncated or non-JSON document makes the load return an empty
\* record without raising, and the append that follows succeeds and leaves a
\* well-formed document that contains the appended message.
MalformedSelfHeals ==
    /\ (lastOp.op \in {"load", "reload"} /\ Malformed(before.conv)) =>
          (projectConversations = EmptyMap /\ lastOp.out # "raised")
    /\ (lastOp.op = "chat" /\ lastOp.out = "ok") =>
          /\ WellFormed(convFile)
          /\ StoredTail(lastOp.key) = <<UserMsg(turns[lastOp.key]),
                                        AssistantMsg(turns[lastOp.key])>>
    /\ (lastOp.op = "chat" /\ version = "v2" /\ Malformed(before.mem)) =>
          /\ WellFormed(memFile[MemoryFileOf(lastOp.key)])
          /\ MemLoaded(memFile[MemoryFileOf(lastOp.key)])
               = <<UserMsg(turns[lastOp.key]), AssistantMsg(turns[lastOp.key])>>
    /\ (lastOp.op = "add" /\ MalformedMemory(before.json)) =>
          /\ lastOp.out # "raised"
          /\ lastOp.out = "ok" =>
               loadMemory(memoryJson) =
                  [kind |-> "memory",
                   conversations |-> [k \in {lastOp.key} |->
                                         <<UserMsg(turns[lastOp.key])>>]]

\* a chat turn found both conversations.json and the key's memory file
\* damaged and has left both well-formed
HealedWitness ==
    /\ version = "v2" /\ lastOp.op = "chat" /\ lastOp.out = "ok"
    /\ Malformed(before.conv) /\ Malformed(before.mem)
    /\ WellFormed(convFile) /\ WellFormed(memFile[MemoryFileOf(lastOp.key)])

\* C8: a clear request that names a key removes exactly the record of that
\* key, whether or not the key has a record, and leaves every other record
\* unchanged; only a request that names no key empties the store.
ClearRemovesOnlyThatKey ==
    /\ (lastOp.op = "clear" /\ lastOp.key # NoKey) =>
          projectConversations = MapDelete(before.map, lastOp.key)
    /\ (lastOp.op = "clearSession" /\ lastOp.key # NoKey
        /\ lastOp.out \in {"ok", "notFound"}) =>
          loadMemory(memoryJson).conversations
             = MapDelete(loadMemory(before.json).conversations, lastOp.key)

\* C9: a store saved by saveConversations and loaded by loadConversations
\* into an empty map is the saved store again, key for key and message for
\* message in order.
SaveLoadRoundTrip ==
    (lastOp.op = "reload" /\ before.conv = File(ConversationsText(before.map))) =>
        projectConversations = before.map

\* a store with two keys, one of them with messages, was saved and loaded
RoundTripWitness ==
    /\ lastOp.op = "reload"
    /\ before.conv = File(ConversationsText(before.map))
    /\ DOMAIN before.map = ConvKeys
    /\ \E k \in ConvKeys : Len(before.map[k]) >= 4
    /\ projectConversations = before.map

-----------------------------------------------------------------------------
(* part_001: POST /api/fix-and-commit and POST /api/create-webapp, from    *)
(* the model's answer on.  A response is its "- FILE: / CONTENT:" entries  *)
(* under FILES_TO_MODIFY, in order, and its fenced blocks, in order; the   *)
(* text around them holds no brace.  A fenced block is one of the sample   *)
(* codes below.                                                            *)

\* sample codes of fenced blocks:
\*   config    ```json  {"version": 2}
\*   manifest  ```json  {"scripts": {"start": "node index.js"}}
\*   server    ```js    app.listen(3000)
\*   html      ```html  <html></html>
\*   cli       ```js    #!/usr/bin/env node
\*   css       ```css   body { margin: 0 }
\*   helper    ```      function f() { return 1 }
\*   object    ```      {"a": 1}
\*   prose     ```      see above
\*   empty     ```      (nothing)
BlockKinds == {"config", "manifest", "server", "html", "cli", "css", "helper",
               "object", "prose", "empty"}

\* the language tag after the opening fence
TagOf(kind) ==
    IF kind \in {"config", "manifest"} THEN "json"
    ELSE IF kind \in {"server", "cli"} THEN "js"
    ELSE IF kind \in {"html", "css"} THEN kind
    ELSE ""

\* the code after the fences and the tag are stripped, and trim()
CodeOf(kind) == IF kind = "empty" THEN "" ELSE kind

\* code.includes('{')
HasBrace(kind) == kind \in {"config", "manifest", "css", "helper", "object"}
\* JSON.parse accepts the code
ValidJSON(kind) == kind \in {"config", "manifest", "object"}
\* JSON.parse accepts the text from the first "{" to the first "}" after it
BraceSpanValid(kind) == kind \in {"config", "object"}

\* error.toLowerCase().includes(...)
ErrorTexts == {"TypeError: x is undefined", "vercel build failed",
               "package.json parse error", "tsconfig json invalid"}
MentionsVercel(error) == error = "vercel build failed"
MentionsJson(error) == error \in {"package.json parse error", "tsconfig json invalid"}
MentionsParse(error) == error = "package.json parse error"
MentionsPackage(error) == error = "package.json parse error"
MentionsTsconfig(error) == error = "tsconfig json invalid"

\* a name that carries the index of every block, the first included
FixNameFromZero(i) == IF i = 0 THEN "fix0.js" ELSE IF i = 1 THEN "fix1.js" ELSE "fix2.js"
\* `fix${i > 0 ? i : ''}.js` for the block of index i (from 0)
FixName(i) == IF i = 0 THEN "fix.js" ELSE IF i = 1 THEN "fix1.js" ELSE "fix2.js"

\* the writeFileSync (after the mkdirSync of its directory) succeeds: the
\* path is no directory and no file stands where a directory is needed
CanWrite(d, full) ==
    /\ ~IsPrefix(full, ServerDir)
    /\ \A f \in DOMAIN d : f = full \/ (~IsPrefix(full, f) /\ ~IsPrefix(f, full))

\* a write that appends to the file it finds
WriteFileAppending(d, full, content) ==
    [x \in (DOMAIN d) \cup {full} |->
        IF x # full THEN d[x]
        ELSE IF full \in DOMAIN d THEN [src |-> "appended", id |-> content.id]
        ELSE content]
\* fs.writeFileSync(full, content): the file holds content, whatever it held
WriteFile(d, full, content) ==
    [x \in (DOMAIN d) \cup {full} |-> IF x = full THEN content ELSE d[x]]

Content(src, id) == [src |-> src, id |-> id]

\* an extraction that starts with applied = true
ExtractionApplied(d) == [disk |-> d, files |-> <<>>, applied |-> TRUE, fixedCode |-> "",
                         writes |-> <<>>]
\* the state of one extraction
Extraction(d) == [disk |-> d, files |-> <<>>, applied |-> FALSE, fixedCode |-> "",
                  writes |-> <<>>]

\* one writeFileSync call
WriteCall(full, content) == [full |-> full, content |-> content]

\* the loop over the "- FILE: <path> CONTENT: <content>" entries
RECURSIVE ApplyDirectives(_, _)
ApplyDirectives(acc, ds) ==
    IF ds = <<>> THEN acc
    ELSE LET full == pathJoin(ServerDir, ds[1].path)
             ok == ds[1].content # "" /\ CanWrite(acc.disk, full)
         IN ApplyDirectives(
              IF ok
              THEN [acc EXCEPT !.disk = WriteFile(acc.disk, full,
                                                  Content("directive", ds[1].content)),
                               !.files = Append(acc.files, ds[1].path),
                               !.applied = TRUE,
                               !.writes = Append(acc.writes,
                                     WriteCall(full, Content("directive",
                                                             ds[1].content)))]
              ELSE acc,
              Tail(ds))

\* the target of the fenced block of kind `kind` and index i
TargetFile(kind, i, filePath, error, mentionsCLI) ==
    IF filePath # NoPath THEN filePath
    ELSE IF MentionsVercel(error) /\ HasBrace(kind) THEN Rel(<<"vercel.json">>)
    ELSE IF kind = "server" THEN Rel(<<"server.js">>)
    ELSE IF kind = "html" THEN Rel(<<"public", "index.html">>)
    ELSE IF kind = "cli" \/ mentionsCLI THEN Rel(<<"cli.js">>)
    ELSE IF kind = "css" THEN Rel(<<"public", "style.css">>)
    ELSE IF kind = "manifest" THEN Rel(<<"package.json">>)
    ELSE IF kind = "helper" THEN Rel(<<FixName(i)>>)
    ELSE NoPath

\* the loop over the fenced blocks, from the block of index i on
RECURSIVE ApplyBlocks(_, _, _, _, _, _)
ApplyBlocks(acc, blocks, i, filePath, error, mentionsCLI) ==
    IF i >= Len(blocks) THEN acc
    ELSE LET kind == blocks[i + 1]
             target == TargetFile(kind, i, filePath, error, mentionsCLI)
             full == pathJoin(ServerDir, target)
             ok == target # NoPath /\ CodeOf(kind) # "" /\ CanWrite(acc.disk, full)
         IN ApplyBlocks(
              IF ok
              THEN [disk |-> WriteFile(acc.disk, full, Content("block", CodeOf(kind))),
                    files |-> Append(acc.files, target),
                    applied |-> TRUE,
                    fixedCode |-> CodeOf(kind),
                    writes |-> Append(acc.writes,
                                      WriteCall(full, Content("block", CodeOf(kind))))]
              ELSE acc,
              blocks, i + 1, filePath, error, mentionsCLI)

\* candidates that hold a valid brace span whatever the text holds
JsonCandidatesFromProse(blocks) == <<[kind |-> "object", ok |-> TRUE]>>

\* the kinds of the blocks tried by the three patterns, in order: the first
\* block tagged json; the first block, whose capture starts with its tag; the
\* first brace span of the text
JsonCandidates(blocks) ==
    LET tagged == {i \in 1..Len(blocks) : TagOf(blocks[i]) = "json"}
        braced == {i \in 1..Len(blocks) : HasBrace(blocks[i])}
        first(S) == blocks[CHOOSE i \in S : \A j \in S : i <= j]
    IN (IF tagged = {} THEN <<>>
        ELSE <<[kind |-> first(tagged), ok |-> ValidJSON(first(tagged))]>>)
       \o (IF blocks = <<>> THEN <<>>
           ELSE <<[kind |-> blocks[1],
                   ok |-> TagOf(blocks[1]) = "" /\ ValidJSON(blocks[1])]>>)
       \o (IF braced = {} THEN <<>>
           ELSE <<[kind |-> first(braced), ok |-> BraceSpanValid(first(braced))]>>)

JsonFile(error) ==
    IF MentionsPackage(error) THEN Rel(<<"package.json">>)
    ELSE IF MentionsTsconfig(error) THEN Rel(<<"tsconfig.json">>)
    ELSE Rel(<<"vercel.json">>)

\* the loop over the patterns: the first candidate that parses and can be
\* written ends it
RECURSIVE ApplyJson(_, _, _)
ApplyJson(acc, cands, error) ==
    IF cands = <<>> THEN acc
    ELSE LET full == pathJoin(ServerDir, JsonFile(error))
         IN IF cands[1].ok /\ CanWrite(acc.disk, full)
            THEN [disk |-> WriteFile(acc.disk, full, Content("json", cands[1].kind)),
                  files |-> Append(acc.files, JsonFile(error)),
                  applied |-> TRUE,
                  fixedCode |-> cands[1].kind,
                  writes |-> Append(acc.writes,
                                    WriteCall(full, Content("json", cands[1].kind)))]
            ELSE ApplyJson(acc, Tail(cands), error)

\* an extraction whose fallbacks run whether or not a file was applied
ExtractFixAlwaysFallback(d, action, filePath, error, directives, blocks, mentionsCLI) ==
    IF action \notin {"auto_fix", "fix_and_apply"} THEN Extraction(d)
    ELSE LET a1 == ApplyDirectives(Extraction(d), directives)
             a2 == IF blocks # <<>>
                   THEN ApplyBlocks(a1, blocks, 0, filePath, error, mentionsCLI)
                   ELSE a1
         IN IF MentionsJson(error) \/ MentionsVercel(error) \/ MentionsParse(error)
            THEN ApplyJson(a2, JsonCandidates(blocks), error)
            ELSE a2

\* the three strategies of fix-and-commit, one after the other
ExtractFix(d, action, filePath, error, directives, blocks, mentionsCLI) ==
    IF action \notin {"auto_fix", "fix_and_apply"} THEN Extraction(d)
    ELSE LET a1 == ApplyDirectives(Extraction(d), directives)
             a2 == IF ~a1.applied /\ blocks # <<>>
                   THEN ApplyBlocks(a1, blocks, 0, filePath, error, mentionsCLI)
                   ELSE a1
         IN IF ~a2.applied /\ (MentionsJson(error) \/ MentionsVercel(error)
                                \/ MentionsParse(error))
            THEN ApplyJson(a2, JsonCandidates(blocks), error)
            ELSE a2

Actions == {"analyze", "auto_fix", "fix_and_apply"}

\* the paths a response or a caller names
SafePath == Rel(<<"src", "app.js">>)
InnerDotDot == Rel(<<"src", "..", "app.js">>)
Traversal == Rel(<<"..", "evil.js">>)
DeepTraversal == Rel(<<"..", "..", "etc", "cron">>)
AbsolutePath == PathText(TRUE, <<"etc", "passwd">>)
BlankPath == Rel(<<>>)
ServerJs == Rel(<<"server.js">>)

Dir(path, content) == [path |-> path, content |-> content]

DirectiveLists ==
    {<<>>,
     <<Dir(SafePath, "one")>>, <<Dir(SafePath, "")>>, <<Dir(BlankPath, "one")>>,
     <<Dir(InnerDotDot, "one")>>, <<Dir(Traversal, "one")>>,
     <<Dir(AbsolutePath, "one")>>,
     <<Dir(ServerJs, "one")>>, <<Dir(ServerJs, "")>>,
     <<Dir(SafePath, "one"), Dir(SafePath, "two")>>,
     <<Dir(Rel(<<"src">>), "one"), Dir(SafePath, "two")>>,
     <<Dir(SafePath, "one"), Dir(DeepTraversal, "two")>>}

BlockLists ==
    {<<>>} \cup {<<k>> : k \in BlockKinds} \cup
    {<<"helper", "helper">>, <<"prose", "helper">>, <<"html", "server">>,
     <<"helper", "object">>, <<"prose", "helper", "helper">>,
     <<"helper", "helper", "helper">>}

CallerPaths == {NoPath, SafePath, DeepTraversal}

MaxRequests == 1

\* the handler of POST /api/fix-and-commit with an error text and the
\* provider answering.  memory.errorFixes.push throws when memory.json holds
\* an object without that member, and the request ends with status 500.
Fix(action, filePath, error, directives, blocks, mentionsCLI) ==
    /\ version = "p1"
    /\ requests' = requests + 1
    /\ loadMemory(memoryJson).kind # "other"
    /\ LET m == loadMemory(memoryJson)
           x == ExtractFix(disk, action, filePath, error, directives, blocks,
                           mentionsCLI)
           sol == Solution(directives, blocks, mentionsCLI)
       IN IF m.kind = "memory"
          THEN /\ \E outcome \in WriteOutcomes :
                     memoryJson' = saveMemory(m.conversations, memoryJson, outcome)
               /\ disk' = x.disk
               /\ response' = [op |-> "fix", status |-> 200, files |-> x.files,
                               applied |-> x.applied, fixedCode |-> x.fixedCode,
                               solution |-> sol]
               /\ attempt' = [op |-> "fix", action |-> action, filePath |-> filePath,
                              error |-> error, solution |-> sol,
                              diskBefore |-> disk, writes |-> x.writes]
          ELSE /\ UNCHANGED <<memoryJson, disk>>
               /\ response' = [op |-> "fix", status |-> 500, files |-> <<>>,
                               applied |-> FALSE, fixedCode |-> "",
                               solution |-> NoSolution]
               /\ attempt' = [op |-> "fix", action |-> action, filePath |-> filePath,
                              error |-> error, solution |-> sol,
                              diskBefore |-> disk, writes |-> <<>>]
    /\ lastOp' = [op |-> "fix", key |-> "", out |-> IF response'.status = 200
                                                   THEN "ok" ELSE "raised"]
    /\ before' = Found(Absent)
    /\ UNCHANGED <<version, booted, projectConversations, convFile, tmpFile, memFile,
                   turns, appended, appendedMem>>

FixAndCommit(action, filePath, error, directives, blocks, mentionsCLI) ==
    /\ requests < MaxRequests
    /\ Fix(action, filePath, error, directives, blocks, mentionsCLI)

\* POST /api/create-webapp with an idea and the provider answering: the
\* files are written first, memory.codeHistory.push comes after
CreateWebapp(directives) ==
    /\ version = "p1"
    /\ requests < MaxRequests
    /\ requests' = requests + 1
    /\ loadMemory(memoryJson).kind # "other"
    /\ LET m == loadMemory(memoryJson)
           x == ApplyDirectives(Extraction(disk), directives)
       IN /\ disk' = x.disk
          /\ IF m.kind = "memory"
             THEN /\ \E outcome \in WriteOutcomes :
                        memoryJson' = saveMemory(m.conversations, memoryJson, outcome)
                  /\ response' = [op |-> "create", status |-> 200, files |-> x.files,
                                  applied |-> x.applied, fixedCode |-> "",
                                  solution |-> Solution(directives, <<>>, FALSE)]
             ELSE /\ UNCHANGED memoryJson
                  /\ response' = [op |-> "create", status |-> 500, files |-> <<>>,
                                  applied |-> FALSE, fixedCode |-> "",
                                  solution |-> NoSolution]
          /\ attempt' = [op |-> "create", action |-> "", filePath |-> NoPath,
                         error |-> "", solution |-> Solution(directives, <<>>, FALSE),
                         diskBefore |-> disk, writes |-> x.writes]
    /\ lastOp' = [op |-> "create", key |-> "", out |-> IF response'.status = 200
                                                      THEN "ok" ELSE "raised"]
    /\ before' = Found(Absent)
    /\ UNCHANGED <<version, booted, projectConversations, convFile, tmpFile, memFile,
                   turns, appended, appendedMem>>

PathMemoryJsons == {Absent, File(GoodSessions), File(<<LBrace, RBrace>>)}

InitPath ==
    /\ version = "p1"
    /\ booted = FALSE
    /\ projectConversations = EmptyMap
    /\ convFile = Absent
    /\ tmpFile = Absent
    /\ memFile = [p \in MemPaths |-> Absent]
    /\ memoryJson \in PathMemoryJsons
    /\ turns = NoTurns
    /\ appended = NoHistory
    /\ appendedMem = [p \in MemPaths |-> <<>>]
    /\ lastOp = [op |-> "none", key |-> "", out |-> ""]
    /\ before = NothingBefore
    /\ InitLockIdle

NextPath ==
    \/ /\ requests < MaxRequests
       /\ \E action \in Actions, filePath \in CallerPaths, error \in ErrorTexts,
             directives \in DirectiveLists, blocks \in BlockLists,
             mentionsCLI \in BOOLEAN :
            FixAndCommit(action, filePath, error, directives, blocks, mentionsCLI)
       /\ UNCHANGED <<lockVars, chatVars, orderVars, selectVars, toolVars>>
    \/ /\ requests < MaxRequests
       /\ \E directives \in DirectiveLists : CreateWebapp(directives)
       /\ UNCHANGED <<lockVars, chatVars, orderVars, selectVars, toolVars>>

SpecPath == InitPath /\ [][NextPath]_vars

\* the path text is relative and has no parent-directory segment
Sanitized(p) == ~p.abs /\ \A i \in 1..Len(p.segs) : p.segs[i] # ".."

\* C10: every path the extractor writes to is relative and sanitized: the
\* paths reported as written hold no parent-directory segment and no
\* absolute root, and every file written lies inside the server directory.
WrittenPathsSanitized ==
    /\ \A i \in 1..Len(response.files) : Sanitized(response.files[i])
    /\ \A f \in DOMAIN disk : IsPrefix(ServerDir, f)

-----------------------------------------------------------------------------
(* SpecApply: one fix-and-commit request, and the same request sent again  *)

MaxReapply == 1

\* the last fix-and-commit request is sent once more, unchanged
Reapply ==
    /\ attempt.op = "fix"
    /\ requests < 1 + MaxReapply
    /\ Fix(attempt.action, attempt.filePath, attempt.error,
           attempt.solution.directives, attempt.solution.blocks,
           attempt.solution.mentionsCLI)

NextApply ==
    \/ /\ requests = 0
       /\ \E action \in Actions, filePath \in CallerPaths, error \in ErrorTexts,
             directives \in DirectiveLists, blocks \in BlockLists,
             mentionsCLI \in BOOLEAN :
            FixAndCommit(action, filePath, error, directives, blocks, mentionsCLI)
       /\ UNCHANGED <<lockVars, chatVars, orderVars, selectVars, toolVars>>
    \/ Reapply /\ UNCHANGED <<lockVars, chatVars, orderVars, selectVars, toolVars>>

SpecApply == InitPath /\ [][NextApply]_vars

\* the paths written by the directive strategy in the last request
DirectiveWritten ==
    {attempt.writes[i].full :
        i \in {j \in 1..Len(attempt.writes) :
                  attempt.writes[j].content.src = "directive"}}

\* the last content the directive strategy wrote to path f
LastDirective(f) ==
    LET is == {i \in 1..Len(attempt.writes) :
                  attempt.writes[i].full = f
                  /\ attempt.writes[i].content.src = "directive"}
    IN attempt.writes[CHOOSE i \in is : \A j \in is : j <= i].content

\* C11: the explicit directive wins: a path written from a FILES_TO_MODIFY
\* entry holds that entry's content when the request ends, and no fenced-block
\* or JSON-repair write follows a directive write in the same request.
DirectiveWins ==
    attempt.op = "fix" =>
        /\ \A f \in DirectiveWritten : f \in DOMAIN disk /\ disk[f] = LastDirective(f)
        /\ DirectiveWritten # {} =>
              \A i \in 1..Len(attempt.writes) :
                  attempt.writes[i].content.src = "directive"

\* a response held an entry for server.js and a fenced block that the
\* heuristics map to server.js, and server.js holds the entry's content
DirectiveWinsWitness ==
    /\ attempt.op = "fix" /\ attempt.action = "fix_and_apply"
    /\ attempt.filePath = NoPath
    /\ attempt.solution.directives = <<Dir(ServerJs, "one")>>
    /\ attempt.solution.blocks = <<"server">>
    /\ TargetFile("server", 0, NoPath, attempt.error, FALSE) = ServerJs
    /\ pathJoin(ServerDir, ServerJs) \in DOMAIN disk
    /\ disk[pathJoin(ServerDir, ServerJs)] = Content("directive", "one")

\* the last request is a fix to apply made of unlabeled fenced blocks of
\* plain function code only: no caller path, no entry written, an error text
\* that does not name vercel, no 'CLI' in the answer
OnlyHelperBlocks ==
    /\ attempt.op = "fix" /\ response.status = 200
    /\ attempt.action \in {"auto_fix", "fix_and_apply"}
    /\ attempt.filePath = NoPath
    /\ DirectiveWritten = {}
    /\ ~MentionsVercel(attempt.error)
    /\ ~attempt.solution.mentionsCLI
    /\ attempt.solution.blocks # <<>>
    /\ \A i \in 1..Len(attempt.solution.blocks) : attempt.solution.blocks[i] = "helper"

AppliedIffFilesChanged ==
    (response.op = "fix" /\ response.status = 200) =>
        /\ response.applied <=> response.files # <<>>
        /\ Len(response.files) = Len(attempt.writes)
        /\ \A i \in 1..Len(attempt.writes) : attempt.writes[i].full \in DOMAIN disk
        /\ response.files = <<>> =>
              (~response.applied /\ disk = attempt.diskBefore
               /\ response.solution = attempt.solution)

\* a request to apply a fix whose answer holds a fenced block with no target:
\* nothing is written and applied is false
NothingAppliedWitness ==
    /\ response.op = "fix" /\ response.status = 200
    /\ attempt.action = "fix_and_apply"
    /\ attempt.solution.blocks = <<"prose">>
    /\ response.files = <<>> /\ ~response.applied
    /\ response.solution = attempt.solution

\* the last request got an answer of plain prose: no FILES_TO_MODIFY entry
\* and no fenced block
PlainProse ==
    /\ attempt.op = "fix"
    /\ attempt.solution.directives = <<>>
    /\ attempt.solution.blocks = <<>>

-----------------------------------------------------------------------------
(* Chat without a completion provider *)

\* C15: a chat request made while no completion provider is configured is
\* answered with the labeled fallback message and a success status, never
\* with an error status, whichever chat handler serves it
NoProviderAnswersFallback ==
    lastOp.op = "chatNoProvider" => lastOp.out = "fallback"

-----------------------------------------------------------------------------
(* Applying the same answer twice *)

\* the paths of a sequence of writeFileSync calls
PathsOf(writes) == {writes[i].full : i \in DOMAIN writes}

\* C16: sending the same fix-and-commit request (same answer of the model,
\* same error text, same caller path) a second time leaves every file with
\* the contents it had after the first run, and writes the same set of paths
ApplyIdempotent ==
    [][(attempt.op = "fix" /\ response.status = 200 /\ requests' = requests + 1
        /\ attempt'.action = attempt.action /\ attempt'.filePath = attempt.filePath
        /\ attempt'.error = attempt.error /\ attempt'.solution = attempt.solution)
       => /\ response'.status = 200
          /\ disk' = disk
          /\ PathsOf(attempt'.writes) = PathsOf(attempt.writes)
          /\ response'.files = response.files]_vars

\* the same request has been served twice and its second run wrote files
ApplyTwiceWitness ==
    /\ requests = 1 + MaxReapply
    /\ response.status = 200 /\ response.applied
    /\ attempt.writes # <<>>
    /\ attempt.diskBefore = disk
    /\ disk # NoFiles

-----------------------------------------------------------------------------
(* SpecBound: the three stores from an empty disk, every save succeeding,  *)
(* with enough turns under one key to pass every cap of the chat handlers. *)

MaxTurnsBound == 21

\* the cap part_001 puts on the history of its first chat handler; the
\* session store of addToMemory names no cap of its own
SessionCap == 16

InitBound ==
    /\ version \in ServerVersions \cup {"p1"}
    /\ booted = FALSE
    /\ projectConversations = EmptyMap
    /\ convFile = Absent
    /\ tmpFile = Absent
    /\ memFile = [p \in MemPaths |-> Absent]
    /\ memoryJson = Absent
    /\ turns = NoTurns
    /\ appended = NoHistory
    /\ appendedMem = [p \in MemPaths |-> <<>>]
    /\ lastOp = [op |-> "none", key |-> "", out |-> ""]
    /\ before = NothingBefore
    /\ InitLockIdle

NextBound ==
    \/ version \in ServerVersions /\ Boot /\ UNCHANGED <<lockVars, extractVars, chatVars, orderVars, selectVars, toolVars>>
    \/ \E k \in ConvKeys :
         version \in ServerVersions /\ ChatTurn(k, MaxTurnsBound, {"ok"})
         /\ UNCHANGED <<lockVars, extractVars, chatVars, orderVars, selectVars, toolVars>>
    \/ \E k \in ConvKeys :
         AddToMemory(k, MaxTurnsBound, {"ok"}) /\ UNCHANGED <<lockVars, extractVars, chatVars, orderVars, selectVars, toolVars>>

SpecBound == InitBound /\ [][NextBound]_vars

\* the messages memory.json holds under a session
SessionMessages(k) ==
    LET m == loadMemory(memoryJson)
    IN IF MapHas(m.conversations, k) THEN m.conversations[k] ELSE <<>>

\* C17: in every reachable state the message list a store holds under a key
\* is no longer than the store's maximum: the history of the chat handlers,
\* the memory files of saveToMemory, and the session store of addToMemory
StoredListsBounded ==
    /\ \A k \in ConvKeys :
         MapHas(projectConversations, k) =>
            Len(projectConversations[k]) <= HistoryCap(version)
    /\ \A p \in MemPaths : Len(MemLoaded(memFile[p])) <= MemoryCap
    /\ \A k \in ConvKeys : Len(SessionMessages(k)) <= SessionCap

-----------------------------------------------------------------------------
(* SpecTurn: the chat handler of server.js in its two parts, before and    *)
(* after `await axios.post(...)`, with other chat requests and             *)
(* clear-conversation requests served while it waits.  Between the two     *)
(* parts the handler holds `history`, the array it took from the Map.      *)

MaxTurnsTurn == 2

\* POST /api/chat up to the provider call: the key gets an empty array if it
\* has none, and the handler keeps the array of its key
ChatBegin(c, k) ==
    /\ booted
    /\ chat[c].pc = "idle"
    /\ turns[k] < MaxTurnsTurn
    /\ projectConversations' =
          IF MapHas(projectConversations, k) THEN projectConversations
          ELSE MapSet(projectConversations, k, <<>>)
    /\ turns' = [turns EXCEPT ![k] = @ + 1]
    /\ chat' = [chat EXCEPT ![c] = [pc |-> "awaiting", key |-> k,
                                    turn |-> turns[k] + 1, live |-> TRUE]]
    /\ lastOp' = [op |-> "chatBegin", key |-> k, out |-> ""]
    /\ before' = Found(Absent)
    /\ UNCHANGED <<version, booted, convFile, tmpFile, memFile, appended, appendedMem,
                   memoryJson>>

\* the provider answers: history.push twice, the trim, saveConversations,
\* and in v2 the two saveToMemory calls.  The pushes go to the array the
\* handler holds; the Map changes only if that array is still its value
ChatEnd(c) ==
    /\ chat[c].pc = "awaiting"
    /\ LET k == chat[c].key
           t == chat[c].turn
           p == MemoryFileOf(k)
       IN /\ projectConversations' =
                IF chat[c].live
                THEN MapSet(projectConversations, k,
                            PushTurn(projectConversations[k], UserMsg(t),
                                     AssistantMsg(t), HistoryCap(version)))
                ELSE projectConversations
          /\ appended' = IF chat[c].live
                         THEN [appended EXCEPT ![k] = @ \o <<UserMsg(t), AssistantMsg(t)>>]
                         ELSE appended
          /\ convFile' = saveConversations(projectConversations', convFile,
                                           tmpFile, "ok")[1]
          /\ tmpFile' = saveConversations(projectConversations', convFile,
                                          tmpFile, "ok")[2]
          /\ IF version = "v2"
             THEN /\ memFile' = [memFile EXCEPT ![p] =
                        SaveToMemorySeq(SaveToMemorySeq(@, UserMsg(t)), AssistantMsg(t))]
                  /\ appendedMem' = [appendedMem EXCEPT ![p] =
                        @ \o <<UserMsg(t), AssistantMsg(t)>>]
             ELSE UNCHANGED <<memFile, appendedMem>>
          /\ lastOp' = [op |-> "chatEnd", key |-> k, out |-> "ok"]
          /\ before' = Found(memFile[p])
    /\ chat' = [chat EXCEPT ![c] = NoChat]
    /\ UNCHANGED <<version, booted, turns, memoryJson>>

\* the provider call fails: the catch answers, nothing is pushed or saved
ChatReject(c) ==
    /\ chat[c].pc = "awaiting"
    /\ chat' = [chat EXCEPT ![c] = NoChat]
    /\ lastOp' = [op |-> "chatFail", key |-> chat[c].key, out |-> "error"]
    /\ before' = Found(Absent)
    /\ UNCHANGED <<version, booted, projectConversations, convFile, tmpFile, memFile,
                   turns, appended, appendedMem, memoryJson>>

\* POST /api/clear-conversation while handlers wait: delete(repoName) or
\* clear() takes the arrays out of the Map; the handlers keep them
ClearWhileWaiting(repoName) ==
    /\ ClearConversation(repoName)
    /\ chat' = [c \in Chats |->
                  IF chat[c].pc = "awaiting"
                     /\ ~MapHas(projectConversations', chat[c].key)
                  THEN [chat[c] EXCEPT !.live = FALSE]
                  ELSE chat[c]]

InitTurn == InitConv({Absent}, {Absent}) /\ InitLockIdle

NextTurn ==
    \/ Boot /\ UNCHANGED <<lockVars, extractVars, chatVars, orderVars, selectVars, toolVars>>
    \/ \E c \in Chats, k \in ConvKeys : ChatBegin(c, k) /\ UNCHANGED <<lockVars, extractVars, orderVars, selectVars, toolVars>>
    \/ \E c \in Chats : ChatEnd(c) /\ UNCHANGED <<lockVars, extractVars, orderVars, selectVars, toolVars>>
    \/ \E c \in Chats : ChatReject(c) /\ UNCHANGED <<lockVars, extractVars, orderVars, selectVars, toolVars>>
    \/ \E r \in ClearRequests : ClearWhileWaiting(r) /\ UNCHANGED <<lockVars, extractVars, orderVars, selectVars, toolVars>>

SpecTurn == InitTurn /\ [][NextTurn]_vars

\* the last two messages of a list
LastTwo(h) == IF Len(h) >= 2 THEN SubSeq(h, Len(h) - 1, Len(h)) ELSE h

\* C18: when a chat handler finishes after its provider call succeeded, the
\* list held under its conversation key ends with the turn's user message
\* followed by its assistant message, whatever chat and clear-conversation
\* requests were served while the provider call was pending
TurnRecorded ==
    [][\A c \in Chats :
         (chat[c].pc = "awaiting" /\ chat'[c].pc = "idle" /\ lastOp'.op = "chatEnd")
         => /\ MapHas(projectConversations', chat[c].key)
            /\ LastTwo(projectConversations'[chat[c].key])
                 = <<UserMsg(chat[c].turn), AssistantMsg(chat[c].turn)>>]_vars

-----------------------------------------------------------------------------
(* Stored content of any shape *)

\* C19: whatever the backing file holds (nothing, text that is not JSON, or
\* JSON of another shape such as {}), loading the store and appending a
\* chat turn completes: no exception is raised and the request is not
\* failed because of what was stored
StoredContentNeverFails ==
    lastOp.op \in {"load", "reload", "chat", "add"} => lastOp.out # "raised"

-----------------------------------------------------------------------------
(* SpecSave: concurrent saveToMemory calls on one memory file whose reads  *)
(* all succeed.  A write that fails leaves its call in "failed", so a call *)
(* in "done" has met no I/O error.                                         *)

NextSave ==
    \/ \E c \in Calls : Call(c) /\ UNCHANGED <<convIdleVars, extractVars, chatVars, orderVars, selectVars, toolVars>>
    \/ \E c \in Calls : Acquire(c) /\ UNCHANGED <<convIdleVars, extractVars, chatVars, selectVars, toolVars>>
    \/ \E c \in Calls : PathExists(c) /\ UNCHANGED <<convIdleVars, extractVars, chatVars, orderVars, selectVars, toolVars>>
    \/ \E c \in Calls : ReadFile(c, {TRUE}) /\ UNCHANGED <<convIdleVars, extractVars, chatVars, orderVars, selectVars, toolVars>>
    \/ \E c \in Calls : WriteOpen(c) /\ UNCHANGED <<convIdleVars, extractVars, chatVars, orderVars, selectVars, toolVars>>
    \/ \E c \in Calls : WriteData(c) /\ UNCHANGED <<convIdleVars, extractVars, chatVars, orderVars, selectVars, toolVars>>
    \/ \E c \in Calls : Written(c) /\ UNCHANGED <<convIdleVars, extractVars, chatVars, orderVars, selectVars, toolVars>>
    \/ \E c \in Calls : Rejected(c) /\ UNCHANGED <<convIdleVars, extractVars, chatVars, orderVars, selectVars, toolVars>>
    \/ \E t \in timers : TimerFires(t) /\ UNCHANGED <<convIdleVars, extractVars, chatVars, orderVars, selectVars, toolVars>>
    \/ Tick /\ UNCHANGED <<convIdleVars, extractVars, chatVars, orderVars, selectVars, toolVars>>

SpecSave == InitLock /\ [][NextSave]_vars

\* the entries of the calls, in the order the calls took the lock
EntriesInOrder == [i \in 1..Len(acquired) |-> EntryOf(acquired[i])]

\* C20: when all the concurrent saveToMemory calls on a file have completed
\* without an I/O error, the file holds what it held before followed by
\* every call's entry exactly once, in the order the calls acquired the lock
NoLostUpdate ==
    (\A c \in Calls : pc[c] = "done") =>
       \A p \in MemPaths :
          (\E c \in Calls : callPath[c] = p) =>
             MemLoaded(memFile[p]) = appendedMem[p] \o EntriesInOrder

-----------------------------------------------------------------------------
(* Whose lock entry a release removes *)

\* C21: a lock entry leaves fileLocks only through the call whose
\* acquireLock set it: through that call's finally block, or through the
\* timer that call armed; no other call's releaseLock and no other call's
\* timer removes it
LockOwnership ==
    [][\A p \in MemPaths :
         (p \in DOMAIN fileLocks /\ p \notin DOMAIN fileLocks')
         => \/ \E c \in Calls : /\ holder[p] = c
                                /\ pc[c] \in {"written", "rejected"}
                                /\ pc'[c] \in Finished
            \/ \E t \in timers \ timers' : t.call = holder[p]]_vars

-----------------------------------------------------------------------------
(* SpecSelect: POST /api/repo/select next to saveToMemory calls.  The       *)
(* handler creates the memory file of the repository when pathExists       *)
(* answers false; it takes no lock.  One step per await.                   *)

\* await fs.pathExists(memoryFile) of the select handler
SelectPathExists(p) ==
    /\ selecting.pc = "idle"
    /\ selecting' = [pc |-> IF memFile[p].exists THEN "read" ELSE "create", path |-> p]
    /\ UNCHANGED memFile

\* await fs.readFile and JSON.parse: the handler only counts what it read
SelectRead ==
    /\ selecting.pc = "read"
    /\ selecting' = [selecting EXCEPT !.pc = "done"]
    /\ UNCHANGED memFile

\* fs.writeFile of the empty document opens the file with flag 'w'; or the
\* open fails, which the handler logs
SelectWriteOpen ==
    /\ selecting.pc = "create"
    /\ \/ /\ memFile' = [memFile EXCEPT ![selecting.path] = File(<<>>)]
          /\ selecting' = [selecting EXCEPT !.pc = "write"]
       \/ /\ selecting' = [selecting EXCEPT !.pc = "done"]
          /\ UNCHANGED memFile

\* fs.writeFile writes { conversations: [], ..., totalConversations: 0 }
SelectWriteData ==
    /\ selecting.pc = "write"
    /\ memFile' = [memFile EXCEPT ![selecting.path] = File(MemText(<<>>))]
    /\ selecting' = [selecting EXCEPT !.pc = "done"]

SelectStep ==
    \/ \E p \in MemPaths : SelectPathExists(p)
    \/ SelectRead
    \/ SelectWriteOpen
    \/ SelectWriteData

NextSelect ==
    \/ NextSave
    \/ SelectStep /\ UNCHANGED <<convIdleVars, lockVars, extractVars, chatVars, orderVars,
                                 toolVars>>

SpecSelect == InitLock /\ [][NextSelect]_vars

\* the entries a memory file holds
Stored(p) == {MemLoaded(memFile[p])[i] : i \in 1..Len(MemLoaded(memFile[p]))}

\* C22: the select request destroys no stored history.  Once it has
\* finished and the saveToMemory calls have completed (no lock was force
\* released, no I/O failed), the file still holds the conversations it held
\* before and the entry of every call
SelectKeepsHistory ==
    (selecting.pc = "done" /\ forceLog = {} /\ \A c \in Calls : pc[c] = "done")
    => \A c \in Calls :
          /\ EntryOf(c) \in Stored(callPath[c])
          /\ \A i \in 1..Len(appendedMem[callPath[c]]) :
                appendedMem[callPath[c]][i] \in Stored(callPath[c])

-----------------------------------------------------------------------------
(* The target of a fenced block *)

\* C23: when the fenced-block strategy runs, a block whose content shows an
\* HTML page, a web-server bootstrap, a CSS rule or a package manifest is
\* written to public/index.html, server.js, public/style.css or package.json
\* respectively; the path supplied by the caller is used only for a block
\* that matches none of these rules
SniffingBeforeCallerPath ==
    (/\ attempt.op = "fix" /\ response.status = 200
     /\ attempt.action \in {"auto_fix", "fix_and_apply"}
     /\ attempt.solution.directives = <<>>)
    => \A i \in DOMAIN attempt.solution.blocks :
         LET kind == attempt.solution.blocks[i]
             sniffed == IF kind = "html" THEN Rel(<<"public", "index.html">>)
                        ELSE IF kind = "server" THEN Rel(<<"server.js">>)
                        ELSE IF kind = "css" THEN Rel(<<"public", "style.css">>)
                        ELSE IF kind = "manifest" THEN Rel(<<"package.json">>)
                        ELSE NoPath
         IN sniffed # NoPath =>
              \E j \in DOMAIN response.files : response.files[j] = sniffed

-----------------------------------------------------------------------------
(* SpecScan: the directive scan on the text of the answer.  A text is its  *)
(* lines; an entry line stands for "- FILE: <path>" with "CONTENT: <first  *)
(* body line>", a plain line holds no marker, a blank line is empty.       *)

TextLine(t, path, text) == [t |-> t, path |-> path, text |-> text]
Marker == TextLine("marker", NoPath, "FILES_TO_MODIFY:")
EntryA == TextLine("entry", SafePath, "one")
EntryB == TextLine("entry", ServerJs, "two")
Plain == TextLine("plain", NoPath, "more")
Blank == TextLine("blank", NoPath, "")

MaxLines == 4

\* the texts of at most MaxLines lines that name the marker at most once
ScanTexts ==
    {text \in UNION {[1..n -> {Marker, EntryA, EntryB, Plain, Blank}] : n \in 1..MaxLines} :
        Cardinality({i \in DOMAIN text : text[i] = Marker}) <= 1}

\* the least index from `from` on whose line satisfies Test, or Len + 1
RECURSIVE FirstFrom(_, _, _)
FirstFrom(text, from, ts) ==
    IF from > Len(text) THEN Len(text) + 1
    ELSE IF text[from].t \in ts THEN from
    ELSE FirstFrom(text, from + 1, ts)

\* /FILES_TO_MODIFY:\s*([\s\S]*?)(?=\n\n|$)/: the capture starts after the
\* marker and the white space behind it, and ends before the first empty
\* line, or at the end of the text
SectionOf(text) ==
    LET m == FirstFrom(text, 1, {"marker"})
        start == FirstFrom(text, m + 1, {"marker", "entry", "plain"})
        stop == FirstFrom(text, start, {"blank"})
    IN IF m > Len(text) THEN <<>> ELSE SubSeq(text, start, stop - 1)

\* String.prototype.trim on a body: empty lines at its end are dropped (a
\* body starts with the text behind CONTENT:)
RECURSIVE StripBlank(_)
StripBlank(body) ==
    IF body # <<>> /\ body[Len(body)] = "" THEN StripBlank(SubSeq(body, 1, Len(body) - 1))
    ELSE body

\* the lines of a body joined by "\n", trimmed
JoinTrim(body) ==
    CASE StripBlank(body) = <<"one">> -> "one"
      [] StripBlank(body) = <<"one", "more">> -> "one\nmore"
      [] StripBlank(body) = <<"one", "more", "more">> -> "one\nmore\nmore"
      [] StripBlank(body) = <<"one", "", "more">> -> "one\n\nmore"
      [] StripBlank(body) = <<"one", "more", "more", "more">> -> "one\nmore\nmore\nmore"
      [] StripBlank(body) = <<"one", "more", "", "more">> -> "one\nmore\n\nmore"
      [] StripBlank(body) = <<"one", "", "more", "more">> -> "one\n\nmore\nmore"
      [] StripBlank(body) = <<"one", "", "", "more">> -> "one\n\n\nmore"
      [] StripBlank(body) = <<"two">> -> "two"
      [] StripBlank(body) = <<"two", "more">> -> "two\nmore"
      [] StripBlank(body) = <<"two", "more", "more">> -> "two\nmore\nmore"
      [] StripBlank(body) = <<"two", "", "more">> -> "two\n\nmore"
      [] StripBlank(body) = <<"two", "more", "more", "more">> -> "two\nmore\nmore\nmore"
      [] StripBlank(body) = <<"two", "more", "", "more">> -> "two\nmore\n\nmore"
      [] StripBlank(body) = <<"two", "", "more", "more">> -> "two\n\nmore\nmore"
      [] StripBlank(body) = <<"two", "", "", "more">> -> "two\n\n\nmore"
      [] OTHER -> ""

\* /- FILE: ([^\n]+)\s+CONTENT: ([\s\S]*?)(?=- FILE:|$)/g on lines: each
\* entry with the lines up to the next entry; lines before the first entry
\* belong to no match
RECURSIVE EntriesOf(_, _, _)
EntriesOf(lines, i, acc) ==
    IF i > Len(lines) THEN acc
    ELSE IF lines[i].t # "entry" THEN EntriesOf(lines, i + 1, acc)
    ELSE LET next == FirstFrom(lines, i + 1, {"entry"})
             body == [j \in 1..(next - i) |-> lines[i + j - 1].text]
         IN EntriesOf(lines, next, Append(acc, Dir(lines[i].path, JoinTrim(body))))

\* the entries the handlers find in a text
ScanDirectives(text) == EntriesOf(SectionOf(text), 1, <<>>)

\* POST /api/fix-and-commit whose answer is the text, without fenced blocks
FixText(text) ==
    FixAndCommit("auto_fix", NoPath, "TypeError: x is undefined",
                 ScanDirectives(text), <<>>, FALSE)

NextScan ==
    \/ /\ requests < MaxRequests
       /\ \E text \in ScanTexts : FixText(text)
       /\ UNCHANGED <<lockVars, chatVars, orderVars, selectVars, toolVars>>
    \/ /\ requests < MaxRequests
       /\ \E text \in ScanTexts : CreateWebapp(ScanDirectives(text))
       /\ UNCHANGED <<lockVars, chatVars, orderVars, selectVars, toolVars>>

SpecScan == InitPath /\ [][NextScan]_vars

\* C24: every FILE/CONTENT entry behind the FILES_TO_MODIFY marker is
\* written as one file, and what is written is the whole body of the entry,
\* up to the next entry or the end of the text, empty lines included.  The
\* handler sees a text through the entries its scan finds, so the property
\* is stated for every text with those entries.
EveryEntryWritten ==
    \A text \in ScanTexts :
       (/\ attempt.op = "fix" /\ response.status = 200
        /\ FirstFrom(text, 1, {"marker"}) <= Len(text)
        /\ attempt.solution.directives = ScanDirectives(text))
       => LET m == FirstFrom(text, 1, {"marker"})
              es == EntriesOf(SubSeq(text, m + 1, Len(text)), 1, <<>>)
          IN /\ Len(attempt.writes) = Len(es)
             /\ \A i \in DOMAIN es :
                   /\ attempt.writes[i].full = pathJoin(ServerDir, es[i].path)
                   /\ attempt.writes[i].content.id = es[i].content

-----------------------------------------------------------------------------
(* Failed writes in the response *)

\* the paths the response of fix-and-commit reports as not written.  Its
\* members are success, solution, fixedCode, filesChanged, applied, action,
\* timestamp and error_analyzed: none lists a failed write, and the catch
\* around writeFileSync only logs
ReportedFailures(r) == {}

\* the entries of the last request whose writeFileSync (or mkdirSync) threw
FailedDirectives ==
    LET ds == attempt.solution.directives
    IN {i \in DOMAIN ds :
          /\ ds[i].content # ""
          /\ \A j \in DOMAIN attempt.writes :
                attempt.writes[j].full # pathJoin(ServerDir, ds[i].path)}

\* C25: when the write of an extracted file fails, the response tells the
\* caller so and names the path: every attempted path is reported either as
\* changed or as failed
FailedWritesSurfaced ==
    (attempt.op = "fix" /\ response.status = 200
     /\ attempt.action \in {"auto_fix", "fix_and_apply"})
    => \A i \in FailedDirectives :
          attempt.solution.directives[i].path \in ReportedFailures(response)

-----------------------------------------------------------------------------
(* A chat turn whose save fails *)

-----------------------------------------------------------------------------
(* Repository names and their memory files *)

\* the characters a repository name is made of here: a lower-case and an
\* upper-case letter, the dot, the path separator, the underscore and a
\* character outside the sanitizer's class
NameChars == {"a", "A", ".", "/", "_", " "}

MaxNameLen == 3

\* a name one character longer than sanitizeInput(repoName, 50) keeps,
\* ending with c
LongName(c) == [i \in 1..(RepoNameMax + 1) |-> IF i = RepoNameMax + 1 THEN c ELSE "a"]

\* the repository names given to getRepoMemoryFile, '' included
RepoNames ==
    UNION {[1..n -> NameChars] : n \in 0..MaxNameLen} \cup {LongName("x"), LongName("y")}

\* at most this many names are resolved in one behaviour
MaxNamed == 2

\* getRepoMemoryFile(repoName), the name and the result recorded
ResolveName(name) ==
    /\ Cardinality(named) < MaxNamed
    /\ named' = named \cup {[name |-> name, file |-> RepoMemoryFileName(name)]}
    /\ UNCHANGED build

InitName == InitConv({Absent}, {Absent}) /\ InitLockIdle

NextName ==
    \E name \in RepoNames :
        ResolveName(name)
          /\ UNCHANGED <<convVars, lockVars, extractVars, chatVars, orderVars, selectVars>>

SpecName == InitName /\ [][NextName]_vars

\* C27: for any two different repository names getRepoMemoryFile returns
\* different file names, so that the history of one conversation key is never
\* stored in the file of another
DistinctNamesDistinctFiles ==
    \A r1 \in named : \A r2 \in named :
        r1.name # r2.name => r1.file # r2.file

\* C28: for every repository name the memory file name is the prefix
\* 'memory_' followed by the name lowercased, with every character outside
\* [a-z0-9-_/.] replaced by '_' and runs of path separators collapsed to one,
\* and nothing else done to it, followed by '.json'
FileNameIsLowercasedReplacedCollapsed ==
    \A r \in named :
        LET lowered == [i \in 1..Len(r.name) |-> toLowerCase(r.name[i])]
            replaced == [i \in 1..Len(lowered) |->
                           IF lowered[i] \in AllowedChars \ UpperCase
                           THEN lowered[i] ELSE "_"]
        IN r.file = <<"memory_">> \o CollapseRuns(replaced, "/", "/") \o <<".json">>

-----------------------------------------------------------------------------
(* Concurrent chat turns under one key *)

\* the chat requests all name one repository
SharedKey == "a/x"

NextShared ==
    \/ Boot /\ UNCHANGED <<lockVars, extractVars, chatVars, orderVars, selectVars, toolVars>>
    \/ \E c \in Chats : ChatBegin(c, SharedKey) /\ UNCHANGED <<lockVars, extractVars, orderVars, selectVars, toolVars>>
    \/ \E c \in Chats : ChatEnd(c) /\ UNCHANGED <<lockVars, extractVars, orderVars, selectVars, toolVars>>
    \/ \E c \in Chats : ChatReject(c) /\ UNCHANGED <<lockVars, extractVars, orderVars, selectVars, toolVars>>
    \/ \E r \in ClearRequests : ClearWhileWaiting(r) /\ UNCHANGED <<lockVars, extractVars, orderVars, selectVars, toolVars>>

SpecShared == InitTurn /\ [][NextShared]_vars

\* C29: with chat requests for one conversation key in flight together, the
\* history in memory is a sequence of whole turns: every message at an odd
\* position is a turn's user message and the next one is the assistant reply
\* of that same turn, whatever the order in which the provider calls return
TurnsNeverInterleaved ==
    \A k \in ConvKeys :
        MapHas(projectConversations, k) =>
           LET h == projectConversations[k]
           IN /\ Len(h) % 2 = 0
              /\ \A i \in 1..Len(h) :
                    i % 2 = 1 =>
                       \E t \in 1..MaxTurnsTurn :
                           /\ h[i] = UserMsg(t)
                           /\ h[i + 1] = AssistantMsg(t)

\* two requests for one key waited for the provider together and the
\* second one was answered first: both turns are in the list, the later
\* turn before the earlier one
ReturnedInReverseOrder ==
    \E k \in ConvKeys :
        /\ MapHas(projectConversations, k)
        /\ projectConversations[k]
             = <<UserMsg(2), AssistantMsg(2), UserMsg(1), AssistantMsg(1)>>
        /\ lastOp.op = "chatEnd"

-----------------------------------------------------------------------------
(* ReactNativeBuilder.buildAndTest and fixBuildIssues (part_000), one step  *)
(* per awaited command.  An error is the set of the words of               *)
(* fixBuildIssues its message contains: "sdk" stands for 'sdk' or          *)
(* 'build-tools', "memory" for 'memory' or 'heap', "permission" for        *)
(* 'permission' or 'access'.                                               *)

\* this.maxAttempts
maxAttempts == 3

ErrorWords == {"sdk", "memory", "permission"}
ErrorMessages == SUBSET ErrorWords

\* the awaited steps of the try block, in order
TrySteps == {"clean", "assembleDebug", "assembleRelease", "bundleRelease", "testBuilds"}

AfterTryStep(step) ==
    CASE step = "clean" -> "assembleDebug"
      [] step = "assembleDebug" -> "assembleRelease"
      [] step = "assembleRelease" -> "bundleRelease"
      [] step = "bundleRelease" -> "testBuilds"
      [] OTHER -> "returned"

\* what the step pushes onto completedBuilds once its output is renamed
BuiltBy(step) ==
    CASE step = "assembleDebug" -> <<"debug.apk">>
      [] step = "assembleRelease" -> <<"release.apk">>
      [] step = "bundleRelease" -> <<"release.aab">>
      [] OTHER -> <<>>

\* the steps of fixBuildIssues: the synchronous edits of build.gradle and
\* gradle.properties, chmod, ./gradlew clean, npm install
FixSteps == {"fixFiles", "chmod", "fixClean", "npmInstall"}

AfterFixStep(step, error) ==
    CASE step = "fixFiles" -> IF "permission" \in error THEN "chmod" ELSE "fixClean"
      [] step = "chmod" -> "fixClean"
      [] step = "fixClean" -> "npmInstall"
      [] OTHER -> "clean"

\* buildAndTest() up to the first command: completedBuilds = [], the output
\* directory is made (mkdirSync may throw), attempt = 1
BuildAndTest(mkdirOk) ==
    /\ build.pc = "idle"
    /\ build' = IF mkdirOk
                THEN [NoBuild EXCEPT !.pc = "clean", !.attempt = 1]
                ELSE [NoBuild EXCEPT !.pc = "thrown", !.result = "mkdirSync failed"]
    /\ UNCHANGED named

\* a command of the try block exits with 0 and its output is renamed;
\* after testBuilds the method returns
TryStepSucceeds ==
    /\ build.pc \in TrySteps
    /\ build' = [build EXCEPT
                   !.pc = AfterTryStep(build.pc),
                   !.completedBuilds = @ \o BuiltBy(build.pc),
                   !.result = IF build.pc = "testBuilds" THEN "returned" ELSE @]
    /\ UNCHANGED named

\* a command of the try block, its renameSync or testBuilds throws: the
\* catch block either enters fixBuildIssues(error) or throws the final error
TryStepFails(error) ==
    /\ build.pc \in TrySteps
    /\ build' = IF build.attempt < maxAttempts
                THEN [build EXCEPT !.pc = "fixFiles", !.error = error]
                ELSE [build EXCEPT !.pc = "thrown", !.error = error,
                                   !.result = "Build failed after 3 attempts"]
    /\ UNCHANGED named

\* a step of fixBuildIssues succeeds; after npm install the loop goes on
\* with the next attempt
FixStepSucceeds ==
    /\ build.pc \in FixSteps
    /\ build' = [build EXCEPT
                   !.pc = AfterFixStep(build.pc, build.error),
                   !.attempt = IF build.pc = "npmInstall" THEN @ + 1 ELSE @]
    /\ UNCHANGED named

\* a step of fixBuildIssues throws (readFileSync / writeFileSync of a file it
\* edits, or a command exits with a code other than 0): the call is in the
\* catch block, so the error leaves buildAndTest as it is
FixStepFails ==
    /\ build.pc \in FixSteps
    /\ build.pc = "fixFiles" => build.error \cap {"sdk", "memory"} # {}
    /\ build' = [build EXCEPT !.pc = "thrown", !.result = "Command failed"]
    /\ UNCHANGED named

InitBuild == InitConv({Absent}, {Absent}) /\ InitLockIdle

NextBuild ==
    \/ \E mkdirOk \in BOOLEAN :
         BuildAndTest(mkdirOk)
           /\ UNCHANGED <<convVars, lockVars, extractVars, chatVars, orderVars, selectVars>>
    \/ TryStepSucceeds
         /\ UNCHANGED <<convVars, lockVars, extractVars, chatVars, orderVars, selectVars>>
    \/ \E error \in ErrorMessages :
         TryStepFails(error)
           /\ UNCHANGED <<convVars, lockVars, extractVars, chatVars, orderVars, selectVars>>
    \/ FixStepSucceeds
         /\ UNCHANGED <<convVars, lockVars, extractVars, chatVars, orderVars, selectVars>>
    \/ FixStepFails
         /\ UNCHANGED <<convVars, lockVars, extractVars, chatVars, orderVars, selectVars>>

SpecBuild == InitBuild /\ [][NextBuild]_vars

\* C30: buildAndTest makes at most three attempts, and once its first
\* attempt has started it ends with an error only as the catch block of the
\* third attempt, with 'Build failed after 3 attempts', whatever the
\* repair step between the attempts does
FailsOnlyAfterThreeAttempts ==
    /\ build.attempt <= maxAttempts
    /\ (build.pc = "thrown" /\ build.attempt >= 1) =>
          /\ build.attempt = maxAttempts
          /\ build.result = "Build failed after 3 attempts"

=============================================================================
